---- MODULE Spec2Model ----
(***************************************************************************)
(* Model of the real-time monitor of the StarryNet d2c extension           *)
(* (src/d2c_extension/rt_monitor.py, rt_logger.py): the session lifecycle  *)
(* (start / stop on the controlling thread), the background monitoring     *)
(* loop, path resolution and the per-pair measurement sequence.            *)
(*                                                                         *)
(* The controlling thread and every background thread are interleaved at   *)
(* the granularity of their accesses to shared state (the running flag,    *)
(* the log files, the session fields) and of their blocking calls.         *)
(***************************************************************************)
EXTENDS Integers, Sequences, FiniteSets, TLC

VARIABLES
    running,          \* self.running
    monitor_thread,   \* self.monitor_thread: 0 is None, else the thread's id
    start_wall_time,  \* self.start_wall_time: None or the wall clock at start
    log_files_dict,   \* keys of self.log_files_dict (the path is a function of the key)
    files,            \* contents of the log file of every pair key
    ctl,              \* position of the controlling thread inside start / stop
    thr,              \* the background threads ever launched, by id
    now,              \* wall clock (time.time()), in ticks
    console,          \* last message printed by start / stop
    app               \* last application of a helper function: name, arguments, result

vars == <<running, monitor_thread, start_wall_time, log_files_dict, files,
          ctl, thr, now, console, app>>

----------------------------------------------------------------------------
(* Bounds of the model *)

MaxStarts == 2   \* threads launched
MaxWork == 3     \* threads launched plus iterations of the while loop begun
MaxTime == 2     \* ticks of the wall clock (SpecClock)
MaxOverlapWork == 4   \* the budget of MaxWork, for SpecOverlap
MaxOrbits == 3   \* orbits of a constellation handed to the orchestrater
MaxSats == 3     \* satellites per orbit of such a constellation

(* Python's None where an integer is expected *)
None == -1

(* sn.constellation_size; ground stations are ConstellationSize+1.. *)
ConstellationSize == 2

Threads == 1..MaxStarts

(* The output of `ping -c 3`, one entry per line: the time of a reply line,
   None for a line without "time=".  PingOutputs(rtt) are the outputs of a
   ping whose first reply took rtt ms, and of a ping without a reply. *)
PingOutputs(rtt) ==
    { <<>>, <<None, None, None>>, <<rtt>>, <<None, rtt>>, <<rtt, rtt + 1, rtt + 2>> }

RECURSIVE parse_ping_output_last(_)
(* a parser that returns the time of the last reply line *)
parse_ping_output_last(output) ==
    IF output = <<>> THEN None
    ELSE IF output[Len(output)] # None THEN output[Len(output)]
    ELSE parse_ping_output_last(SubSeq(output, 1, Len(output) - 1))

RECURSIVE parse_ping_output(_)
(* RTParser.parse_ping_output: re.search finds the first "time=" of the output *)
parse_ping_output(output) ==
    IF output = <<>> THEN None
    ELSE IF Head(output) # None THEN Head(output)
    ELSE parse_ping_output(Tail(output))

(* What a call made inside a try block gave: an exception, or a value *)
Raised == [raised |-> TRUE, value |-> <<>>]
Returned(value) == [raised |-> FALSE, value |-> value]

(* what sn.get_IP gives: an exception for an unknown node index, an empty
   list, or the addresses of the node *)
GetIpResults == { Raised, Returned(<<>>), Returned(<<"ip">>) }

(* what exec_command and the read of its output give for a ping *)
ExecResults(rtt) == { Raised } \cup { Returned(output) : output \in PingOutputs(rtt) }

(* RTMonitor.measure_rtt: the RTT it returns (None is absent), whether it
   executed a ping and whether it raised *)
measure_rtt(ip_list, result) ==
    IF ip_list.raised
    THEN [rtt |-> None, probed |-> FALSE, raised |-> FALSE]
    ELSE IF ip_list.value = <<>>
    THEN [rtt |-> None, probed |-> FALSE, raised |-> FALSE]
    ELSE IF result.raised
    THEN [rtt |-> None, probed |-> TRUE, raised |-> FALSE]
    ELSE [rtt |-> parse_ping_output(result.value), probed |-> TRUE, raised |-> FALSE]

(* the RTTs measure_rtt can return for a ping it executes *)
ProbedRtts(rtt) ==
    { measure_rtt(Returned(<<"ip">>), result).rtt : result \in ExecResults(rtt) }

(* Round-trip times (ms) measure_rtt can return for the ping of each
   measurement: one representative value per measurement, or None *)
ProbeRtts == [e2e |-> ProbedRtts(7), up |-> ProbedRtts(1),
              down |-> ProbedRtts(2), isl |-> ProbedRtts(4)]

(* the same when every probe is answered *)
AnsweredRtts == [e2e |-> {7}, up |-> {1}, down |-> {2}, isl |-> {4}]

----------------------------------------------------------------------------
(* Monitored pairs: (node1_idx, node2_idx, node1_type, node2_type) *)

Pss == <<1, 2, "sat", "sat">>
Psg == <<1, ConstellationSize + 1, "sat", "gs">>
Pgs == <<ConstellationSize + 1, 1, "gs", "sat">>
Pgg == <<ConstellationSize + 1, ConstellationSize + 2, "gs", "gs">>

Pairs == {Pss, Psg, Pgs, Pgg}

(* node_pairs arguments given to start *)
PairLists == { <<Pgg>>, <<Pss, Psg>>, <<Pgs>> }

----------------------------------------------------------------------------
(* Hop addresses a traceroute can report, as their four octets: the satellite
   side of a GSL of satellite 1 and of satellite 2, the ground side of a GSL,
   and an ISL whose link index lies beyond the constellation *)
HopSat1 == <<9, 1, 1, 50>>
HopSat2 == <<9, 2, 2, 50>>
HopGs == <<9, 2, 1, 60>>
HopFar == <<10, 0, 9, 10>>

(* Hop lists traceroute_path can return; <<>> stands for its None (no hop
   parsed, no address, or an exception) *)
TracePaths == { <<>>,
                <<HopSat1>>,
                <<HopSat1, HopSat2>>,
                <<HopGs, HopSat2, HopFar>>,
                <<HopSat1, HopGs, HopFar, HopGs>>,
                <<HopGs, HopFar, HopGs, HopSat2>> }

(* a hop whose link index is 0, and the address of a router that is no node
   of the emulation *)
HopZero == <<10, 0, 0, 10>>
HopOther == <<172, 17, 0, 1>>

(* Hop lists for get_gs_access_sat_from_route alone: those of TracePaths and
   longer ones, of up to seven hops, with satellites inside and outside the
   first three and the last three hops *)
RoutePaths ==
    TracePaths \cup
    { <<HopZero, HopSat2>>,
      <<HopOther, HopZero, HopGs>>,
      <<HopGs, HopZero, HopSat1, HopSat2, HopGs>>,
      <<HopGs, HopOther, HopFar, HopSat1, HopSat2, HopGs>>,
      <<HopSat2, HopSat1, HopGs, HopFar, HopGs, HopGs>>,
      <<HopGs, HopFar, HopGs, HopSat1, HopGs, HopFar, HopGs>>,
      <<HopGs, HopFar, HopSat1, HopSat2, HopSat1, HopFar, HopGs>>,
      <<HopZero, HopGs, HopOther, HopSat1, HopSat2, HopZero, HopGs>> }

(* RTMonitor.ip_to_node_index of a monitor whose sn.constellation_size is
   constellation_size *)
ip_to_node_index_for(constellation_size, ip) ==
    LET first_octet == ip[1]
        second_octet == ip[2]
        third_octet == ip[3]
        fourth_octet == ip[4]
        isl_idx == second_octet * 256 + third_octet
        satellite_id == ((isl_idx - 1) \div 2) + 1
    IN  IF first_octet = 9
        THEN IF fourth_octet = 50 THEN third_octet
             ELSE IF fourth_octet = 60 THEN second_octet + constellation_size
             ELSE None
        ELSE IF first_octet = 10
        THEN IF satellite_id <= constellation_size THEN satellite_id ELSE None
        ELSE None

(* RTMonitor.ip_to_node_index *)
ip_to_node_index(ip) == ip_to_node_index_for(ConstellationSize, ip)

(* number of entries of sn.observer.GS_lat_long *)
GsCount == 2

(* sn.orbit_number and sn.sat_number: OrbitNum * SatNum = ConstellationSize *)
OrbitNum == 1
SatNum == 2

(* a right neighbour that never wraps to the first orbit *)
sn_get_right_satellite_unwrapped(current_sat_id, current_orbit_id, orbit_num) ==
    <<current_sat_id, current_orbit_id + 1>>

(* sn_get_right_satellite: [sat_id, orbit_id] of the same position in the next
   orbit *)
sn_get_right_satellite(current_sat_id, current_orbit_id, orbit_num) ==
    IF current_orbit_id = orbit_num - 1
    THEN <<current_sat_id, 0>>
    ELSE <<current_sat_id, current_orbit_id + 1>>

(* sn_get_down_satellite: [sat_id, orbit_id] of the next satellite of the orbit *)
sn_get_down_satellite(current_sat_id, current_orbit_id, sat_num) ==
    IF current_sat_id = sat_num - 1
    THEN <<0, current_orbit_id>>
    ELSE <<current_sat_id + 1, current_orbit_id>>

(* 10.<isl_idx >> 8>.<isl_idx & 0xff>.<host> *)
isl_address(isl_idx, host) == <<10, isl_idx \div 256, isl_idx % 256, host>>

(* an establishment that numbers the links by the position in the orbit alone *)
sn_ISL_establish_by_position(current_sat_id, current_orbit_id, orbit_num, sat_num) ==
    LET current_id == current_orbit_id * sat_num + current_sat_id
        isl_idx == current_sat_id * 2 + 1
        down == sn_get_down_satellite(current_sat_id, current_orbit_id, sat_num)
        right == sn_get_right_satellite(current_sat_id, current_orbit_id, orbit_num)
    IN  { [node |-> current_id + 1, ip |-> isl_address(isl_idx, 40)],
          [node |-> down[2] * sat_num + down[1] + 1, ip |-> isl_address(isl_idx, 10)],
          [node |-> current_id + 1, ip |-> isl_address(isl_idx + 1, 30)],
          [node |-> right[2] * sat_num + right[1] + 1, ip |-> isl_address(isl_idx + 1, 20)] }

(* sn_ISL_establish: the addresses given to the containers (numbered from 1,
   container_id_list[orbit_id * sat_num + sat_id]) by the two ISLs that
   satellite (current_sat_id, current_orbit_id) sets up *)
sn_ISL_establish(current_sat_id, current_orbit_id, orbit_num, sat_num) ==
    LET current_id == current_orbit_id * sat_num + current_sat_id
        isl_idx == current_id * 2 + 1
        down == sn_get_down_satellite(current_sat_id, current_orbit_id, sat_num)
        right == sn_get_right_satellite(current_sat_id, current_orbit_id, orbit_num)
    IN  { [node |-> current_id + 1, ip |-> isl_address(isl_idx, 40)],
          [node |-> down[2] * sat_num + down[1] + 1, ip |-> isl_address(isl_idx, 10)],
          [node |-> current_id + 1, ip |-> isl_address(isl_idx + 1, 30)],
          [node |-> right[2] * sat_num + right[1] + 1, ip |-> isl_address(isl_idx + 1, 20)] }

(* sn_establish_ISLs: one sn_ISL_establish thread per satellite; the result
   gives, for each satellite by its global id (from 0), what its thread
   assigned *)
sn_establish_ISLs(orbit_num, sat_num) ==
    [current_id \in 0..(orbit_num * sat_num - 1) |->
        sn_ISL_establish(current_id % sat_num, current_id \div sat_num, orbit_num, sat_num)]

(* sn_establish_GSL: the addresses given to satellite i and ground station j
   by the GSL between them *)
sn_establish_GSL(i, j) ==
    LET address_16_23 == (j - ConstellationSize) % 256
        address_8_15 == i % 256
    IN  { [node |-> i, ip |-> <<9, address_16_23, address_8_15, 50>>],
          [node |-> j, ip |-> <<9, address_16_23, address_8_15, 60>>] }

(* every address the topology gives to a node *)
AssignedAddresses ==
    UNION { sn_establish_ISLs(OrbitNum, SatNum)[current_id] :
                current_id \in 0..(OrbitNum * SatNum - 1) }
    \cup UNION { sn_establish_GSL(i, j) :
                    i \in 1..ConstellationSize,
                    j \in (ConstellationSize + 1)..(ConstellationSize + GsCount) }

(* addresses a hop of a traceroute can show, assigned by the topology or not *)
MaxOctet == 3
Addresses ==
    { <<first, x, y, z>> : first \in {9, 10, 11}, x \in 0..MaxOctet,
                           y \in 0..MaxOctet, z \in {10, 50, 60} }

(* a look-up that takes any decoded node for a satellite *)
IsAnyNode(node_idx) ==
    node_idx # None /\ node_idx # 0

(* a test of the upper bound alone *)
IsNotGroundStation(node_idx) ==
    node_idx # None /\ node_idx <= ConstellationSize

(* `if node_idx and node_idx <= constellation_size` *)
IsAccessSat(node_idx) ==
    node_idx # None /\ node_idx # 0 /\ node_idx <= ConstellationSize

RECURSIVE FirstSat(_)
(* first hop of the sequence that decodes to a satellite, or None *)
FirstSat(ips) ==
    IF ips = <<>> THEN None
    ELSE IF IsAccessSat(ip_to_node_index(Head(ips)))
         THEN ip_to_node_index(Head(ips))
         ELSE FirstSat(Tail(ips))

Reverse(s) == [i \in 1..Len(s) |-> s[Len(s) + 1 - i]]

Min(a, b) == IF a < b THEN a ELSE b
Max(a, b) == IF a > b THEN a ELSE b

(* a look-up that accepts a route of one hop *)
get_gs_access_sat_from_short_route(path_ips) ==
    IF Len(path_ips) < 1 THEN <<None, None>>
    ELSE <<FirstSat(SubSeq(path_ips, 1, Min(3, Len(path_ips)))),
           FirstSat(Reverse(SubSeq(path_ips, Max(1, Len(path_ips) - 2), Len(path_ips))))>>

(* a look-up that scans the whole route from both ends *)
get_gs_access_sat_from_whole_route(path_ips) ==
    IF Len(path_ips) < 2 THEN <<None, None>>
    ELSE <<FirstSat(path_ips), FirstSat(Reverse(path_ips))>>

(* RTMonitor.get_gs_access_sat_from_route on the hop list traceroute_path
   returned (<<>> stands for its None) *)
get_gs_access_sat_from_route(path_ips) ==
    IF Len(path_ips) < 2 THEN <<None, None>>
    ELSE <<FirstSat(SubSeq(path_ips, 1, Min(3, Len(path_ips)))),
           FirstSat(Reverse(SubSeq(path_ips, Max(1, Len(path_ips) - 2), Len(path_ips))))>>

----------------------------------------------------------------------------
(* Log lines.  by / it record which background thread (0: the controlling
   thread) and which loop iteration wrote the line; they are not file content. *)

Line(kind, label, n1, n2, val, extra, by, it) ==
    [kind |-> kind, label |-> label, n1 |-> n1, n2 |-> n2,
     val |-> val, extra |-> extra, by |-> by, it |-> it]

(* a classification that knows the mixed link in one direction only *)
determine_link_type_one_way(node1_type, node2_type) ==
    IF node1_type = "sat" /\ node2_type = "sat" THEN "ISL"
    ELSE IF node1_type = "sat" /\ node2_type = "gs" THEN "ISL + GSL"
    ELSE "GS-GS"

(* RTLogger.determine_link_type *)
determine_link_type(node1_type, node2_type) ==
    IF node1_type = "sat" /\ node2_type = "sat" THEN "ISL"
    ELSE IF (node1_type = "sat" /\ node2_type = "gs")
            \/ (node1_type = "gs" /\ node2_type = "sat") THEN "ISL + GSL"
    ELSE "GS-GS"

(* RTLogger.initialize_log: the file is opened with 'w' and holds the header only *)
initialize_log(f, key) == [f EXCEPT ![key] = <<Line("header", "", 0, 0, None, None, 0, 0)>>]

(* open(log_file, 'a'); f.write(line) *)
AppendLog(f, key, line) == [f EXCEPT ![key] = Append(@, line)]

(* RTLogger.log_monitor_start for every file of log_files_dict *)
log_monitor_start(f, keys, t) ==
    [k \in DOMAIN f |->
        IF k \in keys
        THEN Append(f[k], Line("monitor_start", "", 0, 0, None, None, t, 0))
        ELSE f[k]]

(* RTLogger.log_monitor_stop for every file of log_files_dict *)
log_monitor_stop(f, keys) ==
    [k \in DOMAIN f |->
        IF k \in keys
        THEN Append(f[k], Line("monitor_stop", "", 0, 0, None, None, 0, 0))
        ELSE f[k]]

(* RTLogger.log_rtt: the time stamp and the result in one write *)
log_rtt_line(key, rtt, emu_time, t, it) ==
    Line("rtt", determine_link_type(key[3], key[4]), key[1], key[2], rtt, emu_time, t, it)

(* RTLogger.log_timestamp *)
log_timestamp_line(emu_time, t, it) ==
    Line("timestamp", "", 0, 0, emu_time, None, t, it)

(* RTLogger.log_gs_path: the satellites are named only when both are known *)
log_gs_path_line(src_gs, dst_gs, src_sat, dst_sat, t, it) ==
    IF src_sat # None /\ dst_sat # None
    THEN Line("path", "Path", src_gs, dst_gs, src_sat, dst_sat, t, it)
    ELSE Line("path", "DISCONNECT", src_gs, dst_gs, None, None, t, it)

(* a segment line that shows the Doppler shift whatever the RTT *)
log_segment_rtt_line_with_doppler(node1_index, node2_index, rtt, direction, doppler_shift_hz, t, it) ==
    IF direction = "GS-Sat"
    THEN Line("uplink", "GS-Sat", node1_index, node2_index, rtt, doppler_shift_hz, t, it)
    ELSE IF direction = "Sat-GS"
    THEN Line("downlink", "Sat-GS", node2_index, node1_index, rtt, doppler_shift_hz, t, it)
    ELSE Line("isl", "ISL", node1_index, node2_index, rtt, None, t, it)

(* RTLogger.log_segment_rtt: the Doppler shift is shown on a GSL line with an RTT *)
log_segment_rtt_line(node1_index, node2_index, rtt, direction, doppler_shift_hz, t, it) ==
    IF direction = "GS-Sat"
    THEN Line("uplink", "GS-Sat", node1_index, node2_index, rtt,
              IF rtt # None THEN doppler_shift_hz ELSE None, t, it)
    ELSE IF direction = "Sat-GS"
    THEN Line("downlink", "Sat-GS", node2_index, node1_index, rtt,
              IF rtt # None THEN doppler_shift_hz ELSE None, t, it)
    ELSE Line("isl", "ISL", node1_index, node2_index, rtt, None, t, it)

(* RTLogger.log_gs_gs_accumulated_rtt *)
log_gs_gs_accumulated_rtt_line(node1_index, node2_index, total_rtt, t, it) ==
    Line("aggregate", "GS-GS", node1_index, node2_index, total_rtt, None, t, it)

(* a total that adds up whatever segments were measured *)
partial_total_rtt(gs_sat_rtt, sat_gs_rtt, sat_sat_rtt) ==
    IF gs_sat_rtt = None /\ sat_gs_rtt = None /\ sat_sat_rtt = None
    THEN None
    ELSE (IF gs_sat_rtt # None THEN gs_sat_rtt ELSE 0)
         + (IF sat_gs_rtt # None THEN sat_gs_rtt ELSE 0)
         + (IF sat_sat_rtt # None THEN sat_sat_rtt ELSE 0)

(* RTMonitor.log_rtt, lines 379-381 *)
total_rtt(gs_sat_rtt, sat_gs_rtt, sat_sat_rtt) ==
    IF gs_sat_rtt # None /\ sat_gs_rtt # None /\ sat_sat_rtt # None
    THEN gs_sat_rtt + sat_gs_rtt + sat_sat_rtt
    ELSE None

(* the wall clock advances in ticks of half a second *)
TicksPerSecond == 2

(* RTMonitor.get_emulation_time: int(duration) + 2 *)
get_emulation_time ==
    IF start_wall_time = None THEN 0
    ELSE ((now - start_wall_time) \div TicksPerSecond) + 2

(* Doppler shift of a link in range (Hz); its value depends on the orbit only *)
DopplerHz == 4200

(* RTMonitor.calculate_doppler_shift_for_gsl: None when the satellite or the
   ground station is out of range *)
calculate_doppler_shift_for_gsl(gs_index, sat_index) ==
    LET sat_idx == sat_index - 1
        gs_idx == gs_index - ConstellationSize - 1
    IN  IF sat_idx < 0 \/ sat_idx >= ConstellationSize THEN None
        ELSE IF gs_idx < 0 \/ gs_idx >= GsCount THEN None
        ELSE DopplerHz

----------------------------------------------------------------------------
(* DopplerCalculator.  The numbers are IEEE doubles.  A velocity or a shift
   close to zero is held as an integer n that stands for n times the least
   positive double: below 2^-1022 the doubles are exactly these multiples, a
   sum of them or a product with an integer is exact, and a quotient is
   rounded to the nearest of them, ties to even. *)

SPEED_OF_LIGHT == 299792458

(* DEFAULT_CARRIER_FREQ_HZ = 14.0e9, in GHz *)
DEFAULT_CARRIER_FREQ_GHZ == 14

(* carrier_frequency_hz of DopplerCalculator.__init__, in GHz *)
CarrierFrequencies == {1, DEFAULT_CARRIER_FREQ_GHZ}

(* the double nearest to n / d for d > 0, ties to even *)
RoundHalfEven(n, d) ==
    LET q == n \div d
        r == n % d
    IN  IF 2 * r < d THEN q
        ELSE IF 2 * r > d THEN q + 1
        ELSE IF q % 2 = 0 THEN q ELSE q + 1

(* positions in units of a quarter of 1e-6 km; `distance < 1e-6` of line 106 *)
DistanceFloor == 4

Dot(a, b) == a[1] * b[1] + a[2] * b[2] + a[3] * b[3]

(* np.linalg.norm, exact on the vectors whose length is a whole number *)
Norm(a) == CHOOSE r \in 0..Dot(a, a) : r * r <= Dot(a, a) /\ Dot(a, a) < (r + 1) * (r + 1)

(* a radial velocity guarded against a distance of exactly zero only *)
calculate_radial_velocity_zero_only(sat_position_km, sat_velocity_km_s, gs_position_km) ==
    LET rel_pos == [i \in 1..3 |-> sat_position_km[i] - gs_position_km[i]]
        distance == Norm(rel_pos)
        sat_velocity_m_s == [i \in 1..3 |-> sat_velocity_km_s[i] * 1000]
        product(i) == RoundHalfEven(sat_velocity_m_s[i] * rel_pos[i], distance)
    IN  IF distance = 0
        THEN [value |-> 0, divided |-> FALSE]
        ELSE [value |-> product(1) + product(2) + product(3), divided |-> TRUE]

(* DopplerCalculator.calculate_radial_velocity: the component of the
   satellite's velocity along the line from the ground station to the
   satellite, in m/s; `divided` tells whether rel_pos was divided by the
   distance *)
calculate_radial_velocity(sat_position_km, sat_velocity_km_s, gs_position_km) ==
    LET rel_pos == [i \in 1..3 |-> sat_position_km[i] - gs_position_km[i]]
        distance == Norm(rel_pos)
        sat_velocity_m_s == [i \in 1..3 |-> sat_velocity_km_s[i] * 1000]
        product(i) == RoundHalfEven(sat_velocity_m_s[i] * rel_pos[i], distance)
    IN  IF distance < DistanceFloor
        THEN [value |-> 0, divided |-> FALSE]
        ELSE [value |-> product(1) + product(2) + product(3), divided |-> TRUE]

(* a shift without the minus sign *)
calculate_doppler_shift_unsigned(radial_velocity_m_s, carrier_freq) ==
    RoundHalfEven(radial_velocity_m_s, SPEED_OF_LIGHT) * carrier_freq

(* DopplerCalculator.calculate_doppler_shift:
   -(radial_velocity_m_s / SPEED_OF_LIGHT) * carrier_freq.  With the carrier
   in GHz the result counts 1e9 times the least positive double. *)
calculate_doppler_shift(radial_velocity_m_s, carrier_freq) ==
    (-RoundHalfEven(radial_velocity_m_s, SPEED_OF_LIGHT)) * carrier_freq

(* DopplerCalculator.calculate_doppler_for_gsl on the state of the satellite
   and the position of the ground station that skyfield reports *)
calculate_doppler_for_gsl(sat_pos_km, sat_vel_km_s, gs_pos_km, carrier_freq) ==
    LET radial_vel == calculate_radial_velocity(sat_pos_km, sat_vel_km_s, gs_pos_km)
    IN  [doppler_shift |-> calculate_doppler_shift(radial_vel.value, carrier_freq),
         radial_vel |-> radial_vel.value,
         divided |-> radial_vel.divided]

Abs(x) == IF x < 0 THEN -x ELSE x

(* a choice of unit that compares the signed shift with the thresholds *)
format_doppler_shift_signed(doppler_hz) ==
    IF doppler_hz >= 1000000000
    THEN [unit |-> "MHz", thousandths |-> RoundHalfEven(doppler_hz, 1000000)]
    ELSE IF doppler_hz >= 1000000
    THEN [unit |-> "kHz", thousandths |-> RoundHalfEven(doppler_hz, 1000)]
    ELSE [unit |-> "Hz", thousandths |-> doppler_hz]

(* format_doppler_shift.  doppler_hz is given in thousandths of a Hz, so 1e6
   Hz is 1000000000 and 1e3 Hz is 1000000; the text "d.ddd unit" of the
   format :.3f is held as the unit and the number of thousandths of it, the
   nearest to the quotient. *)
format_doppler_shift(doppler_hz) ==
    IF Abs(doppler_hz) >= 1000000000
    THEN [unit |-> "MHz", thousandths |-> RoundHalfEven(doppler_hz, 1000000)]
    ELSE IF Abs(doppler_hz) >= 1000000
    THEN [unit |-> "kHz", thousandths |-> RoundHalfEven(doppler_hz, 1000)]
    ELSE [unit |-> "Hz", thousandths |-> doppler_hz]

(* shifts in thousandths of a Hz: below, at and above both thresholds, the
   values of the documented examples, and their negations *)
DopplerShifts ==
    { sign * magnitude :
        sign \in {-1, 1},
        magnitude \in { 0, 1, 42000, 999999, 1000000, 4200000, 999999000, 999999999,
                        1000000000, 1000000499, 1234567000 } }

(* radial velocities around zero and around the multiples of half the speed of
   light, in least positive doubles *)
RadialVelocities ==
    { m * (SPEED_OF_LIGHT \div 2) + d : m \in -3..3, d \in -1..1 }

(* positions less than the floor apart, exactly the floor apart and further *)
Positions == { <<0, 0, 0>>, <<3, 0, 0>>, <<4, 0, 0>>, <<0, 4, 0>>, <<3, 4, 0>>, <<0, 0, 4>> }

GsPositions == { <<0, 0, 0>>, <<3, 0, 0>> }

(* satellite velocities in km/s: none, the least one, and one whose thousandfold
   exceeds the speed of light in least positive doubles *)
SatVelocities ==
    { <<0, 0, 0>>, <<1, 0, 0>>, <<0, -1, 0>> } \cup
    { <<x, y, 0>> : x, y \in { -(SPEED_OF_LIGHT \div 1000 + 1), 0, SPEED_OF_LIGHT \div 1000 + 1 } }

----------------------------------------------------------------------------
(* Background threads *)

NoThread ==
    [pc |-> "none", pairs |-> <<>>, idx |-> 0, iter |-> 0, phase |-> "",
     src |-> None, dst |-> None, up |-> None, down |-> None,
     calls |-> <<>>, wrote |-> <<>>]


Alive(t) == thr[t].pc \notin {"none", "done"}

Launched == {t \in Threads : thr[t].pc # "none"}

(* an in-flight probe or trace, or time.sleep: where a thread spends its time *)
Blocked(t) == thr[t].pc \in {"wait", "sleep"}

Key(t) == thr[t].pairs[thr[t].idx]

RECURSIVE ItersBegun(_)
(* iterations of the while loop begun so far by the threads 1..n *)
ItersBegun(n) == IF n = 0 THEN 0 ELSE thr[n].iter + ItersBegun(n - 1)

(* what the model has let happen so far, against the budget of the specification *)
Work == Cardinality(Launched) + ItersBegun(MaxStarts)

IsGsGs(key) == key[3] = "gs" /\ key[4] = "gs"

(* the write of one line by thread t to the file of its current pair *)
Write(f, t, line) == AppendLog(f, Key(t), line)

(* no helper function has been applied *)
NoApp == [f |-> "", arg |-> <<>>, ret |-> <<>>]

----------------------------------------------------------------------------
Init ==
    /\ running = FALSE
    /\ monitor_thread = 0
    /\ start_wall_time = None
    /\ log_files_dict = {}
    /\ files = [k \in Pairs |-> <<>>]
    /\ ctl = [pc |-> "idle", pairs |-> <<>>]
    /\ thr = [t \in Threads |-> NoThread]
    /\ now = 0
    /\ console = ""
    /\ app = NoApp

----------------------------------------------------------------------------
(* a start that does not test the running flag *)
StartUnchecked(node_pairs, sessions, work) ==
    /\ ctl.pc = "idle"
    /\ Cardinality(Launched) < sessions
    /\ Work < work
    /\ ctl' = [pc |-> "start_logs", pairs |-> node_pairs]
    /\ UNCHANGED <<running, monitor_thread, start_wall_time, log_files_dict,
                   files, thr, now, console, app>>

(* RTMonitor.start, lines 435-437: the test of the running flag.  `sessions`
   and `work` are the numbers of threads and of steps of work the
   specification lets happen. *)
Start(node_pairs, sessions, work) ==
    /\ ctl.pc = "idle"
    /\ IF running
       THEN /\ console' = "Monitor is already running!"
            /\ UNCHANGED <<running, monitor_thread, start_wall_time, log_files_dict,
                           files, ctl, thr, now, app>>
       ELSE /\ Cardinality(Launched) < sessions
            /\ Work < work
            /\ ctl' = [pc |-> "start_logs", pairs |-> node_pairs]
            /\ UNCHANGED <<running, monitor_thread, start_wall_time, log_files_dict,
                           files, thr, now, console, app>>

RECURSIVE InitLogs(_, _)
(* the loop of lines 449-459 over node_pairs *)
InitLogs(f, node_pairs) ==
    IF node_pairs = <<>> THEN f
    ELSE InitLogs(initialize_log(f, Head(node_pairs)), Tail(node_pairs))

(* a start that creates no log file *)
StartWithoutLogs ==
    /\ ctl.pc = "start_logs"
    /\ ctl' = [ctl EXCEPT !.pc = "start_time"]
    /\ UNCHANGED <<running, monitor_thread, start_wall_time, log_files_dict, files,
                   thr, now, console, app>>

(* RTMonitor.start, lines 448-459: one log file per pair, created or overwritten *)
StartInitLogs ==
    /\ ctl.pc = "start_logs"
    /\ log_files_dict' = log_files_dict \cup {ctl.pairs[i] : i \in 1..Len(ctl.pairs)}
    /\ files' = InitLogs(files, ctl.pairs)
    /\ ctl' = [ctl EXCEPT !.pc = "start_time"]
    /\ UNCHANGED <<running, monitor_thread, start_wall_time, thr, now, console, app>>

(* RTMonitor.start, line 462 *)
StartRecordTime ==
    /\ ctl.pc = "start_time"
    /\ start_wall_time' = now
    /\ ctl' = [ctl EXCEPT !.pc = "start_flag"]
    /\ UNCHANGED <<running, monitor_thread, log_files_dict, files, thr, now, console, app>>

(* RTMonitor.start, line 464 *)
StartSetRunning ==
    /\ ctl.pc = "start_flag"
    /\ running' = TRUE
    /\ ctl' = [ctl EXCEPT !.pc = "start_thread"]
    /\ UNCHANGED <<monitor_thread, start_wall_time, log_files_dict, files, thr, now, console, app>>

(* RTMonitor.start, lines 465-476: the thread is created and started *)
StartLaunchThread ==
    /\ ctl.pc = "start_thread"
    /\ LET t == Cardinality(Launched) + 1
       IN  /\ monitor_thread' = t
           /\ thr' = [thr EXCEPT ![t] = [NoThread EXCEPT !.pc = "begin",
                                                         !.pairs = ctl.pairs]]
    /\ ctl' = [pc |-> "idle", pairs |-> <<>>]
    /\ console' = "Real-time monitor started"
    /\ UNCHANGED <<running, start_wall_time, log_files_dict, files, now, app>>

(* a stop that does not test the running flag *)
StopUnchecked ==
    /\ ctl.pc = "idle"
    /\ running' = FALSE
    /\ ctl' = [ctl EXCEPT !.pc = "stop_join"]
    /\ UNCHANGED <<monitor_thread, start_wall_time, log_files_dict, files,
                   thr, now, console, app>>

(* RTMonitor.stop, lines 480-484 *)
Stop ==
    /\ ctl.pc = "idle"
    /\ IF ~running
       THEN /\ console' = "Monitor is not running!"
            /\ UNCHANGED <<running, monitor_thread, start_wall_time, log_files_dict,
                           files, ctl, thr, now, app>>
       ELSE /\ running' = FALSE
            /\ ctl' = [ctl EXCEPT !.pc = "stop_join"]
            /\ UNCHANGED <<monitor_thread, start_wall_time, log_files_dict, files,
                           thr, now, console, app>>

(* a join without timeout: it returns when the thread has finished *)
StopJoinUnbounded ==
    /\ ctl.pc = "stop_join"
    /\ monitor_thread # 0
    /\ ~Alive(monitor_thread)
    /\ ctl' = [ctl EXCEPT !.pc = "stop_logs"]
    /\ UNCHANGED <<running, monitor_thread, start_wall_time, log_files_dict, files,
                   thr, now, console, app>>

(* RTMonitor.stop, lines 485-486: join(timeout=10) returns when the thread has
   finished, or after ten seconds while the thread is still blocked *)
StopJoin ==
    /\ ctl.pc = "stop_join"
    /\ monitor_thread # 0
    /\ \/ ~Alive(monitor_thread)
       \/ /\ Alive(monitor_thread)
          /\ Blocked(monitor_thread)
    /\ ctl' = [ctl EXCEPT !.pc = "stop_logs"]
    /\ UNCHANGED <<running, monitor_thread, start_wall_time, log_files_dict, files,
                   thr, now, console, app>>

(* RTMonitor.stop, lines 488-495 *)
StopLogStops ==
    /\ ctl.pc = "stop_logs"
    /\ files' = log_monitor_stop(files, log_files_dict)
    /\ ctl' = [ctl EXCEPT !.pc = "idle"]
    /\ console' = "Real-time monitor stopped"
    /\ UNCHANGED <<running, monitor_thread, start_wall_time, log_files_dict, thr, now, app>>

----------------------------------------------------------------------------
(* RTMonitor.monitor_loop, lines 406-409: the start entry of every log file *)
ThreadBegin(t) ==
    /\ thr[t].pc = "begin"
    /\ files' = log_monitor_start(files, log_files_dict, t)
    /\ thr' = [thr EXCEPT ![t].pc = "while"]
    /\ UNCHANGED <<running, monitor_thread, start_wall_time, log_files_dict, ctl,
                   now, console, app>>

(* a loop that never tests the running flag *)
LoopWhileUnchecked(t, work) ==
    /\ thr[t].pc = "while"
    /\ Work < work
    /\ thr' = [thr EXCEPT ![t].pc = "for", ![t].idx = 1, ![t].iter = @ + 1]
    /\ UNCHANGED <<running, monitor_thread, start_wall_time, log_files_dict, files,
                   ctl, now, console, app>>

(* RTMonitor.monitor_loop, line 411: `while self.running` *)
LoopWhile(t, work) ==
    /\ thr[t].pc = "while"
    /\ IF running
       THEN /\ Work < work
            /\ thr' = [thr EXCEPT ![t].pc = "for", ![t].idx = 1, ![t].iter = @ + 1]
       ELSE thr' = [thr EXCEPT ![t].pc = "done"]
    /\ UNCHANGED <<running, monitor_thread, start_wall_time, log_files_dict, files,
                   ctl, now, console, app>>

(* a for loop without the test of the running flag before each pair *)
LoopForUnchecked(t) ==
    /\ thr[t].pc = "for"
    /\ IF thr[t].idx > Len(thr[t].pairs)
       THEN thr' = [thr EXCEPT ![t].pc = "sleep", ![t].calls = <<>>, ![t].wrote = <<>>]
       ELSE IF Key(t) \in log_files_dict
       THEN thr' = [thr EXCEPT ![t].pc = "call", ![t].phase = "e2e",
                               ![t].calls = <<>>, ![t].wrote = <<>>]
       ELSE thr' = [thr EXCEPT ![t].idx = @ + 1, ![t].calls = <<>>, ![t].wrote = <<>>]
    /\ UNCHANGED <<running, monitor_thread, start_wall_time, log_files_dict, files,
                   ctl, now, console, app>>

(* a for loop whose break also skips the sleep *)
LoopForNoSleep(t) ==
    /\ thr[t].pc = "for"
    /\ IF ~running
       THEN thr' = [thr EXCEPT ![t].pc = "while", ![t].calls = <<>>, ![t].wrote = <<>>]
       ELSE IF thr[t].idx > Len(thr[t].pairs)
       THEN thr' = [thr EXCEPT ![t].pc = "sleep", ![t].calls = <<>>, ![t].wrote = <<>>]
       ELSE IF Key(t) \in log_files_dict
       THEN thr' = [thr EXCEPT ![t].pc = "call", ![t].phase = "e2e",
                               ![t].calls = <<>>, ![t].wrote = <<>>]
       ELSE thr' = [thr EXCEPT ![t].idx = @ + 1, ![t].calls = <<>>, ![t].wrote = <<>>]
    /\ UNCHANGED <<running, monitor_thread, start_wall_time, log_files_dict, files,
                   ctl, now, console, app>>

(* RTMonitor.monitor_loop, lines 412-421: the next pair of the for loop, the
   check of the running flag before it, and the look-up of its log file *)
LoopFor(t) ==
    /\ thr[t].pc = "for"
    /\ IF thr[t].idx > Len(thr[t].pairs) \/ ~running
       THEN thr' = [thr EXCEPT ![t].pc = "sleep", ![t].calls = <<>>, ![t].wrote = <<>>]
       ELSE IF Key(t) \in log_files_dict
       THEN thr' = [thr EXCEPT ![t].pc = "call", ![t].phase = "e2e",
                               ![t].calls = <<>>, ![t].wrote = <<>>]
       ELSE thr' = [thr EXCEPT ![t].idx = @ + 1, ![t].calls = <<>>, ![t].wrote = <<>>]
    /\ UNCHANGED <<running, monitor_thread, start_wall_time, log_files_dict, files,
                   ctl, now, console, app>>

(* a sleep that never returns once the flag is cleared *)
SleepWakeWhileRunning(t) ==
    /\ thr[t].pc = "sleep"
    /\ running
    /\ thr' = [thr EXCEPT ![t].pc = "while"]
    /\ UNCHANGED <<running, monitor_thread, start_wall_time, log_files_dict, files,
                   ctl, now, console, app>>

(* RTMonitor.monitor_loop, line 425: time.sleep(interval) returns *)
SleepWake(t) ==
    /\ thr[t].pc = "sleep"
    /\ thr' = [thr EXCEPT ![t].pc = "while"]
    /\ UNCHANGED <<running, monitor_thread, start_wall_time, log_files_dict, files,
                   ctl, now, console, app>>

(* a sequence that measures the downlink before the uplink *)
NextPhaseDownFirst(phase, src_sat, dst_sat) ==
    IF phase = "e2e" THEN "trace"
    ELSE IF phase = "trace" /\ dst_sat # None THEN "down"
    ELSE IF phase \in {"trace", "down"} /\ src_sat # None THEN "up"
    ELSE IF phase = "up" /\ src_sat # None /\ dst_sat # None THEN "isl"
    ELSE "end"

(* RTMonitor.log_rtt, lines 357-374: the measurement that follows `phase` in a
   ground-to-ground iteration, "end" when none is left *)
NextPhase(phase, src_sat, dst_sat) ==
    IF phase = "e2e" THEN "trace"
    ELSE IF phase = "trace" /\ src_sat # None THEN "up"
    ELSE IF phase \in {"trace", "up"} /\ dst_sat # None THEN "down"
    ELSE IF phase = "down" /\ src_sat # None /\ dst_sat # None THEN "isl"
    ELSE "end"

(* an aggregate written ahead of the line of the last measurement *)
AggregateFirst(line, last, aggregate) ==
    (IF last THEN <<aggregate>> ELSE <<>>) \o <<line>>

(* RTMonitor.log_rtt, lines 346-383: the line of a measurement, followed by
   the aggregate line when the measurement was the last of the iteration *)
WithAggregate(line, last, aggregate) ==
    <<line>> \o (IF last THEN <<aggregate>> ELSE <<>>)

(* RTMonitor.log_rtt, lines 336-386: the lines written once the measurement of
   `phase` has returned `res`, in the order of the writes.  gs_sat_rtt and
   sat_gs_rtt are the RTTs of the segments measured before. *)
ResultLines(key, phase, res, sats, gs_sat_rtt, sat_gs_rtt, by, it) ==
    LET src_sat == sats[1]
        dst_sat == sats[2]
        aggregate(u, d, i) ==
            log_gs_gs_accumulated_rtt_line(key[1], key[2], total_rtt(u, d, i), by, it)
        last == NextPhase(phase, src_sat, dst_sat) = "end"
    IN  IF ~IsGsGs(key)
        THEN <<log_rtt_line(key, res, get_emulation_time, by, it)>>
        ELSE IF phase = "e2e"
        THEN <<log_timestamp_line(get_emulation_time, by, it)>>
        ELSE IF phase = "trace"
        THEN WithAggregate(log_gs_path_line(key[1], key[2], src_sat, dst_sat, by, it),
                           last, aggregate(None, None, None))
        ELSE IF phase = "up"
        THEN WithAggregate(log_segment_rtt_line(key[1], src_sat, res, "GS-Sat",
                               calculate_doppler_shift_for_gsl(key[1], src_sat), by, it),
                           last, aggregate(res, None, None))
        ELSE IF phase = "down"
        THEN WithAggregate(log_segment_rtt_line(key[2], dst_sat, res, "Sat-GS",
                               calculate_doppler_shift_for_gsl(key[2], dst_sat), by, it),
                           last, aggregate(gs_sat_rtt, res, None))
        ELSE WithAggregate(log_segment_rtt_line(src_sat, dst_sat, res, "Sat-Sat",
                               None, by, it),
                           TRUE, aggregate(gs_sat_rtt, sat_gs_rtt, res))

(* RTMonitor.log_rtt and the end of the for body: thread t logs the result
   `res` (`sats` for a trace) of the measurement of its current phase; a
   ground-to-ground pair goes on to its next measurement, any other pair is
   finished *)
LogResult(t, res, sats) ==
    LET me == thr[t]
        lines == ResultLines(Key(t), me.phase, res, sats, me.up, me.down, t, me.iter)
        next == IF IsGsGs(Key(t)) THEN NextPhase(me.phase, sats[1], sats[2])
                ELSE "end"
    IN  /\ files' = [files EXCEPT ![Key(t)] = @ \o lines]
        /\ thr' = [thr EXCEPT ![t] =
              IF next = "end"
              THEN [me EXCEPT !.pc = "for", !.idx = @ + 1, !.phase = "",
                              !.src = None, !.dst = None,
                              !.up = None, !.down = None,
                              !.wrote = @ \o lines]
              ELSE [me EXCEPT !.pc = "call", !.phase = next,
                              !.src = sats[1], !.dst = sats[2],
                              !.up = IF me.phase = "up" THEN res ELSE @,
                              !.down = IF me.phase = "down" THEN res ELSE @,
                              !.wrote = @ \o lines]]

(* a measurement whose resolution failure is an exception that ends the thread *)
MeasureCallRaising(t, resolutions) ==
    /\ thr[t].pc = "call"
    /\ \E resolved \in resolutions :
         IF resolved
         THEN thr' = [thr EXCEPT ![t].pc = "wait",
                                 ![t].calls = Append(@, IF thr[t].phase = "trace"
                                                        THEN "trace" ELSE "probe")]
         ELSE thr' = [thr EXCEPT ![t].pc = "done"]
    /\ UNCHANGED <<running, monitor_thread, start_wall_time, log_files_dict, files,
                   ctl, now, console, app>>

(* measure_rtt lines 149-162 / traceroute_path lines 201-211: the destination
   address is resolved.  With an address the ping / traceroute command is
   issued and the thread blocks on it; without one nothing is executed, the
   result is None and log_rtt goes on with it.  `resolutions` is what the
   network lets get_IP do: TRUE for an address, FALSE for none. *)
MeasureCall(t, resolutions) ==
    /\ thr[t].pc = "call"
    /\ \E resolved \in resolutions :
         IF resolved
         THEN /\ thr' = [thr EXCEPT ![t].pc = "wait",
                                    ![t].calls = Append(@, IF thr[t].phase = "trace"
                                                           THEN "trace" ELSE "probe")]
              /\ UNCHANGED files
         ELSE LogResult(t, None, IF thr[t].phase = "trace" THEN <<None, None>>
                                 ELSE <<thr[t].src, thr[t].dst>>)
    /\ UNCHANGED <<running, monitor_thread, start_wall_time, log_files_dict, ctl,
                   now, console, app>>

(* measure_rtt lines 163-171: the ping returns and its output is parsed to an
   RTT or None; traceroute_path lines 212-227 and get_gs_access_sat_from_route:
   the traceroute returns, its hop list is parsed and the access satellites
   are looked up in it.  log_rtt then logs the result.  `rtts` and `paths` are
   what the network lets a ping and a traceroute report. *)
MeasureReturn(t, rtts, paths) ==
    /\ thr[t].pc = "wait"
    /\ IF thr[t].phase = "trace"
       THEN \E path_ips \in paths :
               LogResult(t, None, get_gs_access_sat_from_route(path_ips))
       ELSE \E rtt \in rtts[thr[t].phase] :
               LogResult(t, rtt, <<thr[t].src, thr[t].dst>>)
    /\ UNCHANGED <<running, monitor_thread, start_wall_time, log_files_dict, ctl,
                   now, console, app>>

----------------------------------------------------------------------------
(* One monitoring session in any network: addresses may not resolve, probes
   may fail, a traceroute may return any of TracePaths. *)
Next ==
    \/ \E node_pairs \in PairLists : Start(node_pairs, 1, MaxWork)
    \/ StartInitLogs
    \/ StartRecordTime
    \/ StartSetRunning
    \/ StartLaunchThread
    \/ Stop
    \/ StopJoin
    \/ StopLogStops
    \/ \E t \in Threads : ThreadBegin(t)
    \/ \E t \in Threads : LoopWhile(t, MaxWork)
    \/ \E t \in Threads : LoopFor(t)
    \/ \E t \in Threads : MeasureCall(t, BOOLEAN)
    \/ \E t \in Threads : MeasureReturn(t, ProbeRtts, TracePaths)
    \/ \E t \in Threads : SleepWake(t)

Spec == Init /\ [][Next]_vars

(* the statements of start and stop that follow the test of the running flag:
   a call that has begun goes on *)
ControllerStep ==
    \/ StartInitLogs
    \/ StartRecordTime
    \/ StartSetRunning
    \/ StartLaunchThread
    \/ StopJoin
    \/ StopLogStops

(* the statements of monitor_loop that wait for nothing outside the process *)
ThreadStep(t) ==
    \/ ThreadBegin(t)
    \/ LoopWhile(t, MaxWork)
    \/ LoopFor(t)
    \/ MeasureCall(t, BOOLEAN)

(* the return of an external call or of the sleep *)
ThreadReturn(t) ==
    \/ MeasureReturn(t, ProbeRtts, TracePaths)
    \/ SleepWake(t)

(* One session in any network; the interpreter goes on running the controlling
   thread and the background thread, but a ping or a traceroute may never
   return. *)
SpecScheduled ==
    /\ Init /\ [][Next]_vars
    /\ WF_vars(ControllerStep)
    /\ \A t \in Threads : WF_vars(ThreadStep(t))

(* One session in any network where, in addition, every ping, every
   traceroute and every sleep returns. *)
SpecReturning ==
    /\ SpecScheduled
    /\ \A t \in Threads : WF_vars(ThreadReturn(t))

(* Up to MaxStarts sessions of one monitor, one after the other, in a network
   where every address resolves, every probe answers and the traceroute finds
   both access satellites or nothing. *)
HealthyPaths == { <<>>, <<HopSat1, HopSat2>> }

NextRestart ==
    \/ \E node_pairs \in PairLists : Start(node_pairs, MaxStarts, MaxWork)
    \/ StartInitLogs
    \/ StartRecordTime
    \/ StartSetRunning
    \/ StartLaunchThread
    \/ Stop
    \/ StopJoin
    \/ StopLogStops
    \/ \E t \in Threads : ThreadBegin(t)
    \/ \E t \in Threads : LoopWhile(t, MaxWork)
    \/ \E t \in Threads : LoopFor(t)
    \/ \E t \in Threads : MeasureCall(t, {TRUE})
    \/ \E t \in Threads : MeasureReturn(t, AnsweredRtts, HealthyPaths)
    \/ \E t \in Threads : SleepWake(t)

SpecRestart == Init /\ [][NextRestart]_vars

----------------------------------------------------------------------------
(* time.time() moves on *)
Tick ==
    /\ now < MaxTime
    /\ now' = now + 1
    /\ UNCHANGED <<running, monitor_thread, start_wall_time, log_files_dict, files,
                   ctl, thr, console, app>>

(* Up to MaxStarts sessions of one monitor for one satellite-to-ground pair
   while the wall clock advances, in a network where every address resolves
   and every probe answers. *)
NextClock ==
    \/ Start(<<Pgs>>, MaxStarts, MaxWork)
    \/ StartInitLogs
    \/ StartRecordTime
    \/ StartSetRunning
    \/ StartLaunchThread
    \/ Stop
    \/ StopJoin
    \/ StopLogStops
    \/ \E t \in Threads : ThreadBegin(t)
    \/ \E t \in Threads : LoopWhile(t, MaxWork)
    \/ \E t \in Threads : LoopFor(t)
    \/ \E t \in Threads : MeasureCall(t, {TRUE})
    \/ \E t \in Threads : MeasureReturn(t, AnsweredRtts, HealthyPaths)
    \/ \E t \in Threads : SleepWake(t)
    \/ Tick

SpecClock == Init /\ [][NextClock]_vars

(* Up to MaxStarts sessions of one monitor for one ground-to-ground pair, with
   room for two threads to iterate, in a network where every address
   resolves, every probe answers and the traceroute finds both access
   satellites. *)
NextOverlap ==
    \/ Start(<<Pgg>>, MaxStarts, MaxOverlapWork)
    \/ StartInitLogs
    \/ StartRecordTime
    \/ StartSetRunning
    \/ StartLaunchThread
    \/ Stop
    \/ StopJoin
    \/ StopLogStops
    \/ \E t \in Threads : ThreadBegin(t)
    \/ \E t \in Threads : LoopWhile(t, MaxOverlapWork)
    \/ \E t \in Threads : LoopFor(t)
    \/ \E t \in Threads : MeasureCall(t, {TRUE})
    \/ \E t \in Threads : MeasureReturn(t, AnsweredRtts, { <<HopSat1, HopSat2>> })
    \/ \E t \in Threads : SleepWake(t)

SpecOverlap == Init /\ [][NextOverlap]_vars

----------------------------------------------------------------------------
(* The monitor with a single log, src/rt_monitor.py.  One object has one log
   file, written to by its constructor, its background threads and stop; here
   `files` is the content of that file and log_files_dict is not used. *)

(* node_pairs, measure_types and routing_nodes of a start *)
SingleLogPairLists == {<<Pss, Psg>>}

SingleLogMeasureTypes == {{"rtt"}, {"bw"}, {"rtt", "bandwidth"}}

SingleLogRoutingNodes == {<<>>, <<<<1, "sat">>>>}

(* measure_rtt: statistics, None after a failure *)
SingleLogRttResults == {None, 1}

(* measure_bw and measure_routing: statistics and routes; their failures are
   logged like those of measure_rtt and are left out *)
SingleLogBwResults == {1}

SingleLogRoutes == {1}

NoSingleLogThread ==
    [pc |-> "none", pairs |-> <<>>, measure_types |-> {}, routing_nodes |-> <<>>,
     idx |-> 0, iter |-> 0, observed |-> FALSE, calls |-> <<>>, wrote |-> <<>>]

(* blocked in sn_ping, sn_perf, sn_route or time.sleep *)
SingleLogBlocked(t) == thr[t].pc \in {"rtt_wait", "bw_wait", "route_wait", "sleep"}

(* RTMonitor.__init__, lines 78-103: the log file holds the header *)
SingleLogInit ==
    /\ running = FALSE
    /\ monitor_thread = 0
    /\ start_wall_time = None
    /\ log_files_dict = {}
    /\ files = <<Line("header", "", 0, 0, None, None, 0, 0)>>
    /\ ctl = [pc |-> "idle", pairs |-> <<>>, measure_types |-> {}, routing_nodes |-> <<>>]
    /\ thr = [t \in Threads |-> NoSingleLogThread]
    /\ now = 0
    /\ console = ""
    /\ app = NoApp

(* RTMonitor.start, lines 502-507: the test of the running flag and the start
   time *)
SingleLogStart(node_pairs, measure_types, routing_nodes) ==
    /\ ctl.pc = "idle"
    /\ IF running
       THEN /\ console' = "Monitor is already running!"
            /\ UNCHANGED <<running, monitor_thread, start_wall_time, log_files_dict,
                           files, ctl, thr, now, app>>
       ELSE /\ Cardinality(Launched) < MaxStarts
            /\ Work < MaxWork
            /\ start_wall_time' = now
            /\ ctl' = [pc |-> "start_flag", pairs |-> node_pairs,
                       measure_types |-> measure_types, routing_nodes |-> routing_nodes]
            /\ UNCHANGED <<running, monitor_thread, log_files_dict, files, thr, now,
                           console, app>>

(* RTMonitor.start, line 509 *)
SingleLogStartSetRunning ==
    /\ ctl.pc = "start_flag"
    /\ running' = TRUE
    /\ ctl' = [ctl EXCEPT !.pc = "start_thread"]
    /\ UNCHANGED <<monitor_thread, start_wall_time, log_files_dict, files, thr, now,
                   console, app>>

(* RTMonitor.start, lines 510-515 *)
SingleLogStartLaunchThread ==
    /\ ctl.pc = "start_thread"
    /\ LET t == Cardinality(Launched) + 1
       IN  /\ monitor_thread' = t
           /\ thr' = [thr EXCEPT ![t] =
                        [NoSingleLogThread EXCEPT !.pc = "begin", !.pairs = ctl.pairs,
                                                  !.measure_types = ctl.measure_types,
                                                  !.routing_nodes = ctl.routing_nodes]]
    /\ ctl' = [pc |-> "idle", pairs |-> <<>>, measure_types |-> {}, routing_nodes |-> <<>>]
    /\ UNCHANGED <<running, start_wall_time, log_files_dict, files, now, console, app>>

(* RTMonitor.stop, lines 517-521 *)
SingleLogStop ==
    /\ ctl.pc = "idle"
    /\ IF ~running
       THEN /\ console' = "Monitor is not running!"
            /\ UNCHANGED <<running, monitor_thread, start_wall_time, log_files_dict,
                           files, ctl, thr, now, app>>
       ELSE /\ running' = FALSE
            /\ ctl' = [ctl EXCEPT !.pc = "stop_join"]
            /\ UNCHANGED <<monitor_thread, start_wall_time, log_files_dict, files,
                           thr, now, console, app>>

(* RTMonitor.stop, lines 522-523: join(timeout=10) returns when the thread has
   finished, or after ten seconds while the thread is still blocked *)
SingleLogStopJoin ==
    /\ ctl.pc = "stop_join"
    /\ monitor_thread # 0
    /\ ~Alive(monitor_thread) \/ SingleLogBlocked(monitor_thread)
    /\ ctl' = [ctl EXCEPT !.pc = "stop_logs"]
    /\ UNCHANGED <<running, monitor_thread, start_wall_time, log_files_dict, files,
                   thr, now, console, app>>

(* RTMonitor.stop, lines 525-529 *)
SingleLogStopLog ==
    /\ ctl.pc = "stop_logs"
    /\ files' = Append(files, Line("monitor_stop", "", 0, 0, None, None, 0, 0))
    /\ ctl' = [ctl EXCEPT !.pc = "idle"]
    /\ console' = "Real-time monitor stopped"
    /\ UNCHANGED <<running, monitor_thread, start_wall_time, log_files_dict, thr, now, app>>

(* monitor_loop, lines 455-462: the start entry *)
SingleLogThreadBegin(t) ==
    /\ thr[t].pc = "begin"
    /\ files' = Append(files, Line("monitor_start", "", 0, 0, None, None, t, 0))
    /\ thr' = [thr EXCEPT ![t].pc = "while"]
    /\ UNCHANGED <<running, monitor_thread, start_wall_time, log_files_dict, ctl,
                   now, console, app>>

(* monitor_loop, line 464: `while self.running` *)
SingleLogLoopWhile(t) ==
    /\ thr[t].pc = "while"
    /\ IF running
       THEN /\ Work < MaxWork
            /\ thr' = [thr EXCEPT ![t].pc = "pair", ![t].idx = 1, ![t].iter = @ + 1,
                                  ![t].observed = FALSE,
                                  ![t].calls = <<>>, ![t].wrote = <<>>]
       ELSE thr' = [thr EXCEPT ![t].pc = "done"]
    /\ UNCHANGED <<running, monitor_thread, start_wall_time, log_files_dict, files,
                   ctl, now, console, app>>

(* monitor_loop, lines 466-468: the next pair, and the running flag read
   before it; the break leads to the loop over the routing nodes *)
SingleLogForPair(t) ==
    /\ thr[t].pc = "pair"
    /\ IF thr[t].idx > Len(thr[t].pairs)
       THEN thr' = [thr EXCEPT ![t].pc = "node", ![t].idx = 1]
       ELSE IF ~running
       THEN thr' = [thr EXCEPT ![t].pc = "node", ![t].idx = 1, ![t].observed = TRUE]
       ELSE thr' = [thr EXCEPT ![t].pc = "rtt"]
    /\ UNCHANGED <<running, monitor_thread, start_wall_time, log_files_dict, files,
                   ctl, now, console, app>>

(* monitor_loop, lines 470-471: measure_rtt is called if 'rtt' is selected *)
SingleLogMeasureRtt(t) ==
    /\ thr[t].pc = "rtt"
    /\ LET pair == thr[t].pairs[thr[t].idx]
       IN  IF "rtt" \in thr[t].measure_types
           THEN thr' = [thr EXCEPT ![t].pc = "rtt_wait",
                                   ![t].calls = Append(@, <<"rtt", pair[1], pair[2]>>)]
           ELSE thr' = [thr EXCEPT ![t].pc = "bw"]
    /\ UNCHANGED <<running, monitor_thread, start_wall_time, log_files_dict, files,
                   ctl, now, console, app>>

(* the write of one line by thread t to the log *)
SingleLogWrite(t, line, pc, idx) ==
    /\ files' = Append(files, line)
    /\ thr' = [thr EXCEPT ![t].pc = pc, ![t].idx = idx, ![t].wrote = Append(@, line)]

(* monitor_loop, lines 471-472: measure_rtt returns and log_rtt writes *)
SingleLogLogRtt(t) ==
    /\ thr[t].pc = "rtt_wait"
    /\ LET pair == thr[t].pairs[thr[t].idx]
       IN  \E rtt_stats \in SingleLogRttResults :
              SingleLogWrite(t, Line("rtt", determine_link_type(pair[3], pair[4]),
                                     pair[1], pair[2], rtt_stats, None, t, thr[t].iter),
                             "bw", thr[t].idx)
    /\ UNCHANGED <<running, monitor_thread, start_wall_time, log_files_dict, ctl,
                   now, console, app>>

(* monitor_loop, lines 474-475: measure_bw is called if 'bw' or 'bandwidth' is
   selected; otherwise the pair is finished *)
SingleLogMeasureBw(t) ==
    /\ thr[t].pc = "bw"
    /\ LET pair == thr[t].pairs[thr[t].idx]
       IN  IF "bw" \in thr[t].measure_types \/ "bandwidth" \in thr[t].measure_types
           THEN thr' = [thr EXCEPT ![t].pc = "bw_wait",
                                   ![t].calls = Append(@, <<"bw", pair[1], pair[2]>>)]
           ELSE thr' = [thr EXCEPT ![t].pc = "pair", ![t].idx = @ + 1]
    /\ UNCHANGED <<running, monitor_thread, start_wall_time, log_files_dict, files,
                   ctl, now, console, app>>

(* monitor_loop, lines 475-476: measure_bw returns and log_bw writes *)
SingleLogLogBw(t) ==
    /\ thr[t].pc = "bw_wait"
    /\ LET pair == thr[t].pairs[thr[t].idx]
       IN  \E bw_stats \in SingleLogBwResults :
              SingleLogWrite(t, Line("bw", determine_link_type(pair[3], pair[4]),
                                     pair[1], pair[2], bw_stats, None, t, thr[t].iter),
                             "pair", thr[t].idx + 1)
    /\ UNCHANGED <<running, monitor_thread, start_wall_time, log_files_dict, ctl,
                   now, console, app>>

(* monitor_loop, lines 479-483: the next routing node, the running flag read
   before it, and the call of measure_routing *)
SingleLogForNode(t) ==
    /\ thr[t].pc = "node"
    /\ IF thr[t].idx > Len(thr[t].routing_nodes)
       THEN thr' = [thr EXCEPT ![t].pc = "sleep"]
       ELSE IF ~running
       THEN thr' = [thr EXCEPT ![t].pc = "sleep", ![t].observed = TRUE]
       ELSE thr' = [thr EXCEPT ![t].pc = "route_wait",
                               ![t].calls = Append(@, <<"routing",
                                                thr[t].routing_nodes[thr[t].idx][1], 0>>)]
    /\ UNCHANGED <<running, monitor_thread, start_wall_time, log_files_dict, files,
                   ctl, now, console, app>>

(* monitor_loop, lines 483-484: measure_routing returns and log_routing writes *)
SingleLogLogRouting(t) ==
    /\ thr[t].pc = "route_wait"
    /\ LET node == thr[t].routing_nodes[thr[t].idx]
       IN  \E routes \in SingleLogRoutes :
              SingleLogWrite(t, Line("routing", node[2], node[1], 0, routes, None,
                                     t, thr[t].iter),
                             "node", thr[t].idx + 1)
    /\ UNCHANGED <<running, monitor_thread, start_wall_time, log_files_dict, ctl,
                   now, console, app>>

(* monitor_loop, line 487: time.sleep(interval) returns *)
SingleLogSleepWake(t) ==
    /\ thr[t].pc = "sleep"
    /\ thr' = [thr EXCEPT ![t].pc = "while"]
    /\ UNCHANGED <<running, monitor_thread, start_wall_time, log_files_dict, files,
                   ctl, now, console, app>>

(* Up to MaxStarts sessions of one single-log monitor, one after the other. *)
NextSingleLog ==
    \/ \E node_pairs \in SingleLogPairLists, measure_types \in SingleLogMeasureTypes,
          routing_nodes \in SingleLogRoutingNodes :
          SingleLogStart(node_pairs, measure_types, routing_nodes)
    \/ SingleLogStartSetRunning
    \/ SingleLogStartLaunchThread
    \/ SingleLogStop
    \/ SingleLogStopJoin
    \/ SingleLogStopLog
    \/ \E t \in Threads : SingleLogThreadBegin(t)
    \/ \E t \in Threads : SingleLogLoopWhile(t)
    \/ \E t \in Threads : SingleLogForPair(t)
    \/ \E t \in Threads : SingleLogMeasureRtt(t)
    \/ \E t \in Threads : SingleLogLogRtt(t)
    \/ \E t \in Threads : SingleLogMeasureBw(t)
    \/ \E t \in Threads : SingleLogLogBw(t)
    \/ \E t \in Threads : SingleLogForNode(t)
    \/ \E t \in Threads : SingleLogLogRouting(t)
    \/ \E t \in Threads : SingleLogSleepWake(t)

SpecSingleLog == SingleLogInit /\ [][NextSingleLog]_vars

RECURSIVE SingleLogPairCalls(_, _)
(* monitor_loop, lines 466-476: the measurements of the loop over the pairs
   when nothing interrupts it *)
SingleLogPairCalls(node_pairs, measure_types) ==
    IF node_pairs = <<>> THEN <<>>
    ELSE LET pair == Head(node_pairs)
         IN  (IF "rtt" \in measure_types THEN << <<"rtt", pair[1], pair[2]>> >> ELSE <<>>)
             \o (IF "bw" \in measure_types \/ "bandwidth" \in measure_types
                 THEN << <<"bw", pair[1], pair[2]>> >> ELSE <<>>)
             \o SingleLogPairCalls(Tail(node_pairs), measure_types)

(* monitor_loop, lines 479-484: the measurements of the loop over the routing
   nodes when nothing interrupts it *)
SingleLogRoutingCalls(routing_nodes) ==
    [i \in DOMAIN routing_nodes |-> <<"routing", routing_nodes[i][1], 0>>]

----------------------------------------------------------------------------
(* The helper functions of the monitor, applied to every input of a bounded
   set; app records the function, its arguments and its result. *)

(* measure_rtt(node1_index, node2_index): sn.get_IP gives ip_list, the ping,
   if one is executed, gives result *)
CallMeasureRtt ==
    /\ \E ip_list \in GetIpResults, result \in ExecResults(7) :
          app' = [f |-> "measure_rtt", arg |-> <<ip_list, result>>,
                  ret |-> measure_rtt(ip_list, result)]
    /\ UNCHANGED <<running, monitor_thread, start_wall_time, log_files_dict, files,
                   ctl, thr, now, console>>

(* get_gs_access_sat_from_route(src_gs, dst_gs): traceroute_path gives path_ips *)
CallGetGsAccessSat ==
    /\ \E path_ips \in RoutePaths :
          app' = [f |-> "get_gs_access_sat_from_route", arg |-> path_ips,
                  ret |-> get_gs_access_sat_from_route(path_ips)]
    /\ UNCHANGED <<running, monitor_thread, start_wall_time, log_files_dict, files,
                   ctl, thr, now, console>>

(* ip_to_node_index on an address the topology gave to a node *)
CallIpToNodeIndexAssigned ==
    /\ \E a \in AssignedAddresses :
          app' = [f |-> "sn_establish", arg |-> a, ret |-> ip_to_node_index(a.ip)]
    /\ UNCHANGED <<running, monitor_thread, start_wall_time, log_files_dict, files,
                   ctl, thr, now, console>>

(* ip_to_node_index on any address *)
CallIpToNodeIndex ==
    /\ \E ip \in Addresses :
          app' = [f |-> "ip_to_node_index", arg |-> ip, ret |-> ip_to_node_index(ip)]
    /\ UNCHANGED <<running, monitor_thread, start_wall_time, log_files_dict, files,
                   ctl, thr, now, console>>

(* calculate_doppler_shift(radial_velocity_m_s) of a calculator with any carrier *)
CallCalculateDopplerShift ==
    /\ \E v \in RadialVelocities, carrier_freq \in CarrierFrequencies :
          app' = [f |-> "calculate_doppler_shift", arg |-> <<v, carrier_freq>>,
                  ret |-> calculate_doppler_shift(v, carrier_freq)]
    /\ UNCHANGED <<running, monitor_thread, start_wall_time, log_files_dict, files,
                   ctl, thr, now, console>>

(* calculate_doppler_for_gsl(satellite, gs_lat, gs_lon, time_utc) *)
CallCalculateDopplerForGsl ==
    /\ \E sat_pos \in Positions, sat_vel \in SatVelocities, gs_pos \in GsPositions :
          app' = [f |-> "calculate_doppler_for_gsl", arg |-> <<sat_pos, sat_vel, gs_pos>>,
                  ret |-> calculate_doppler_for_gsl(sat_pos, sat_vel, gs_pos,
                                                    DEFAULT_CARRIER_FREQ_GHZ)]
    /\ UNCHANGED <<running, monitor_thread, start_wall_time, log_files_dict, files,
                   ctl, thr, now, console>>

(* format_doppler_shift(doppler_hz) *)
CallFormatDopplerShift ==
    /\ \E doppler_hz \in DopplerShifts :
          app' = [f |-> "format_doppler_shift", arg |-> doppler_hz,
                  ret |-> format_doppler_shift(doppler_hz)]
    /\ UNCHANGED <<running, monitor_thread, start_wall_time, log_files_dict, files,
                   ctl, thr, now, console>>

RECURSIVE log_rtt_lines(_, _, _, _, _, _)
(* RTMonitor.log_rtt, lines 336-383, for a ground-to-ground pair: the lines of
   one call from `phase` on, when the route gives the access satellites `sats`
   and the probes of the segments return rtts.up, rtts.down and rtts.isl *)
log_rtt_lines(key, phase, sats, rtts, gs_sat_rtt, sat_gs_rtt) ==
    IF phase = "end" THEN <<>>
    ELSE LET res == IF phase \in {"up", "down", "isl"} THEN rtts[phase] ELSE None
         IN  ResultLines(key, phase, res, sats, gs_sat_rtt, sat_gs_rtt, 0, 0)
             \o log_rtt_lines(key, NextPhase(phase, sats[1], sats[2]), sats, rtts,
                              IF phase = "up" THEN res ELSE gs_sat_rtt,
                              IF phase = "down" THEN res ELSE sat_gs_rtt)

(* ground-to-ground pairs: both stations have a location in gs_locations, or
   the second one has none *)
GsGsKeys == {Pgg, <<ConstellationSize + 1, ConstellationSize + GsCount + 1, "gs", "gs">>}

(* RTMonitor.log_rtt for a ground-to-ground pair *)
CallLogRtt ==
    /\ \E key \in GsGsKeys,
          src_sat \in {None} \cup (1..ConstellationSize),
          dst_sat \in {None} \cup (1..ConstellationSize),
          up \in ProbeRtts.up, down \in ProbeRtts.down, isl \in ProbeRtts.isl :
          LET arg == [key |-> key, sats |-> <<src_sat, dst_sat>>,
                      rtts |-> [up |-> up, down |-> down, isl |-> isl]]
          IN  app' = [f |-> "log_rtt", arg |-> arg,
                      ret |-> log_rtt_lines(key, "e2e", arg.sats, arg.rtts, None, None)]
    /\ UNCHANGED <<running, monitor_thread, start_wall_time, log_files_dict, files,
                   ctl, thr, now, console>>

(* the type tags a caller may put in a pair: the two that the documentation
   names and one that it does not; no code checks a tag *)
TypeTags == {"sat", "gs", "ground"}

(* RTMonitor.log_rtt, line 350 and line 386: the choice between the
   ground-to-ground procedure and RTLogger.log_rtt, which labels its line with
   determine_link_type *)
CallLogRttDispatch ==
    /\ \E node1_type \in TypeTags, node2_type \in TypeTags :
          app' = [f |-> "log_rtt_dispatch", arg |-> <<node1_type, node2_type>>,
                  ret |-> [gs_gs |-> IsGsGs(<<0, 0, node1_type, node2_type>>),
                           label |-> determine_link_type(node1_type, node2_type)]]
    /\ UNCHANGED <<running, monitor_thread, start_wall_time, log_files_dict, files,
                   ctl, thr, now, console>>

(* sn_establish_ISLs(container_id_list, matrix, orbit_num, sat_num, ...) *)
CallEstablishIsls ==
    /\ \E orbit_num \in 1..MaxOrbits, sat_num \in 1..MaxSats :
          app' = [f |-> "sn_establish_ISLs", arg |-> <<orbit_num, sat_num>>,
                  ret |-> sn_establish_ISLs(orbit_num, sat_num)]
    /\ UNCHANGED <<running, monitor_thread, start_wall_time, log_files_dict, files,
                   ctl, thr, now, console>>

(* sn_get_down_satellite and sn_get_right_satellite for every satellite
   <<sat_id, orbit_id>> of a constellation *)
CallGetNeighbours ==
    /\ \E orbit_num \in 1..MaxOrbits, sat_num \in 1..MaxSats :
          LET grid == (0..(sat_num - 1)) \X (0..(orbit_num - 1))
          IN  app' = [f |-> "sn_get_neighbours", arg |-> <<orbit_num, sat_num>>,
                      ret |-> [down |-> [pos \in grid |->
                                           sn_get_down_satellite(pos[1], pos[2], sat_num)],
                               right |-> [pos \in grid |->
                                           sn_get_right_satellite(pos[1], pos[2], orbit_num)]]]
    /\ UNCHANGED <<running, monitor_thread, start_wall_time, log_files_dict, files,
                   ctl, thr, now, console>>

NextFunctions ==
    \/ CallMeasureRtt
    \/ CallEstablishIsls
    \/ CallLogRttDispatch
    \/ CallLogRtt
    \/ CallGetNeighbours
    \/ CallFormatDopplerShift
    \/ CallCalculateDopplerShift
    \/ CallCalculateDopplerForGsl
    \/ CallGetGsAccessSat
    \/ CallIpToNodeIndexAssigned
    \/ CallIpToNodeIndex

SpecFunctions == Init /\ [][NextFunctions]_vars

----------------------------------------------------------------------------
(* Observations the properties are stated on *)

AliveThreads == {t \in Threads : Alive(t)}

(* thread t has just finished the visit of a pair: calls holds the external
   calls the visit issued and wrote the lines it wrote *)
Visited(t) == thr[t].pc = "for" /\ thr[t].wrote # <<>>

VisitedKey(t) == thr[t].pairs[thr[t].idx - 1]

(* thread t is inside the visit of a ground-to-ground pair *)
VisitingGsGs(t) ==
    /\ thr[t].pc \in {"call", "wait"}
    /\ IsGsGs(Key(t))

SegmentKinds == {"uplink", "downlink", "isl"}

(* the measurement lines iteration `it` of thread t left in the log of pair k *)
IterationLines(k, t, it) ==
    LET Mine(l) == l.by = t /\ l.it = it /\ l.kind \in SegmentKinds \cup {"path", "aggregate", "rtt"}
    IN  SelectSeq(files[k], Mine)

Kinds(lines) == [i \in DOMAIN lines |-> lines[i].kind]

(* two lines of one log written by the same iteration of the same thread *)
SameIteration(a, b) == a.by # 0 /\ a.by = b.by /\ a.it = b.it

(* the RTTs present on the lines of `kind` of the iteration of line a in log k *)
PresentRtts(k, a, kind) ==
    {files[k][m].val : m \in {n \in 1..Len(files[k]) :
                                  /\ files[k][n].kind = kind
                                  /\ SameIteration(a, files[k][n])}} \ {None}

----------------------------------------------------------------------------
(* C1: whatever the sequence of start and stop calls on one monitor, a stop
   whose join timed out followed by a new start included, at most one
   background monitoring thread of the monitor is alive. *)
C1_AtMostOneTask == Cardinality(AliveThreads) <= 1

(* C2: start on a monitor that is running is a no-op: no thread is launched,
   the start time is not recorded again, no log file is created or
   initialised again, the running flag stays set and start returns at once
   with a warning. *)
C2_StartWhileRunningIsNoOp ==
    [][\A node_pairs \in PairLists :
          (running /\ Start(node_pairs, MaxStarts, MaxWork))
          => /\ UNCHANGED <<running, monitor_thread, start_wall_time,
                            log_files_dict, files, ctl, thr>>
             /\ running'
             /\ console' = "Monitor is already running!"]_vars

C2_Witness ==
    /\ console = "Monitor is already running!"
    /\ running
    /\ ctl.pc = "idle"
    /\ Cardinality(Launched) = 1
    /\ \E t \in Threads : thr[t].iter >= 1

(* C3: stop on a monitor that is not running, before any start or after a
   stop, is a no-op: nothing is joined, no stop entry is written to any log
   file, the running flag stays cleared, the rest of the session state is
   unchanged and stop returns at once with a warning. *)
C3_StopWhileIdleIsNoOp ==
    [][(~running /\ Stop)
       => /\ UNCHANGED <<running, monitor_thread, start_wall_time,
                         log_files_dict, files, ctl, thr>>
          /\ ~running'
          /\ console' = "Monitor is not running!"]_vars

C3_Witness ==
    /\ console = "Monitor is not running!"
    /\ ~running
    /\ ctl.pc = "idle"
    /\ \E k \in Pairs :
          /\ files[k] # <<>>
          /\ files[k][Len(files[k])].kind = "monitor_stop"

(* C4: start records the start time and initialises the log file of every
   pair before it sets the running flag and launches the thread: once the
   flag is being set, and for every thread alive, the start time is set and
   every pair of the session has a log file that begins with its header. *)
C4_InitialisedBeforeLaunch ==
    LET Ready(node_pairs) ==
            /\ start_wall_time # None
            /\ \A i \in 1..Len(node_pairs) :
                  /\ node_pairs[i] \in log_files_dict
                  /\ files[node_pairs[i]] # <<>>
                  /\ Head(files[node_pairs[i]]).kind = "header"
    IN  /\ ctl.pc \in {"start_flag", "start_thread"} => Ready(ctl.pairs)
        /\ running => start_wall_time # None
        /\ \A t \in Threads : Alive(t) => Ready(thr[t].pairs)

C4_Witness ==
    \E t \in Threads :
        /\ thr[t].pc = "wait"
        /\ running
        /\ start_wall_time # None
        /\ Key(t) \in log_files_dict
        /\ Head(files[Key(t)]).kind = "header"

(* C5: in every log file the stop entry is the last line of the session: the
   background thread writes no line after it. *)
C5_StopMarkerLast ==
    \A k \in Pairs : \A i, j \in 1..Len(files[k]) :
        (i < j /\ files[k][i].kind = "monitor_stop") => files[k][j].by = 0

(* C6: the aggregate line of a ground-to-ground iteration carries an RTT if
   and only if the uplink, the downlink and the inter-satellite line of that
   iteration all carry one, and then it is their sum; with a segment failed or
   not measured the aggregate is reported as failed. *)
C6_AggregateLaw ==
    \A k \in Pairs : \A j \in 1..Len(files[k]) :
        LET a == files[k][j]
            up == PresentRtts(k, a, "uplink")
            down == PresentRtts(k, a, "downlink")
            isl == PresentRtts(k, a, "isl")
            present == up # {} /\ down # {} /\ isl # {}
        IN  a.kind = "aggregate"
            => /\ a.val # None <=> present
               /\ present => \E u \in up, d \in down, i \in isl : a.val = u + d + i

C6_Witness ==
    \E k \in Pairs : \E j \in 1..Len(files[k]) :
        /\ files[k][j].kind = "aggregate"
        /\ files[k][j].val = 1 + 2 + 4
        /\ PresentRtts(k, files[k][j], "uplink") = {1}
        /\ PresentRtts(k, files[k][j], "downlink") = {2}
        /\ PresentRtts(k, files[k][j], "isl") = {4}

(* C7: among the lines of one ground-to-ground iteration the path line comes
   before every segment line and before the aggregate line, and every segment
   line comes before the aggregate line. *)
C7_PathSegmentsAggregate ==
    \A k \in Pairs : \A j \in 1..Len(files[k]) :
        LET b == files[k][j]
            Earlier(kinds) == \E i \in 1..(j - 1) :
                                 /\ files[k][i].kind \in kinds
                                 /\ SameIteration(files[k][i], b)
        IN  /\ b.kind = "path" => ~Earlier(SegmentKinds \cup {"aggregate"})
            /\ b.kind \in SegmentKinds => (Earlier({"path"}) /\ ~Earlier({"aggregate"}))
            /\ b.kind = "aggregate" => Earlier({"path"})

C7_Witness ==
    \E k \in Pairs : \E t \in Threads :
        Kinds(IterationLines(k, t, 1)) = <<"path", "uplink", "downlink", "isl", "aggregate">>

(* C8, as stated: after a finished iteration of a ground-to-ground pair the
   log of the pair holds, in this order, a path line naming two satellites in
   1..ConstellationSize, an uplink, a downlink and an inter-satellite line,
   and an aggregate line whose RTT, when present, is the sum of the three. *)
C8_FiveLines ==
    \A t \in Threads :
        (Visited(t) /\ IsGsGs(VisitedKey(t)))
        => LET lines == IterationLines(VisitedKey(t), t, thr[t].iter)
           IN  /\ Kinds(lines) = <<"path", "uplink", "downlink", "isl", "aggregate">>
               /\ lines[1].val \in 1..ConstellationSize
               /\ lines[1].extra \in 1..ConstellationSize
               /\ lines[5].val # None
                  => lines[5].val = lines[2].val + lines[3].val + lines[4].val

(* C8, amended: the five lines are there when the trace found both access
   satellites.  When it did not, the path line reports a disconnect and names
   no satellite, only the side that was found has its segment line, there is
   no inter-satellite line and the aggregate line reports a failure. *)
C8_FiveLinesWhenResolved ==
    \A t \in Threads :
        (Visited(t) /\ IsGsGs(VisitedKey(t)))
        => LET lines == IterationLines(VisitedKey(t), t, thr[t].iter)
               n == Len(lines)
           IN  /\ n >= 2
               /\ lines[1].kind = "path"
               /\ lines[n].kind = "aggregate"
               /\ IF lines[1].label = "Path"
                  THEN /\ Kinds(lines) = <<"path", "uplink", "downlink", "isl", "aggregate">>
                       /\ lines[1].val \in 1..ConstellationSize
                       /\ lines[1].extra \in 1..ConstellationSize
                       /\ lines[2].n2 = lines[1].val
                       /\ lines[3].n1 = lines[1].extra
                       /\ lines[4].n1 = lines[1].val
                       /\ lines[4].n2 = lines[1].extra
                       /\ lines[5].val # None
                          => lines[5].val = lines[2].val + lines[3].val + lines[4].val
                  ELSE /\ lines[1].label = "DISCONNECT"
                       /\ lines[1].val = None
                       /\ lines[1].extra = None
                       /\ Kinds(lines) \in { <<"path", "aggregate">>,
                                             <<"path", "uplink", "aggregate">>,
                                             <<"path", "downlink", "aggregate">> }
                       /\ lines[n].val = None

C8_Witness ==
    \E t \in Threads :
        /\ Visited(t)
        /\ IsGsGs(VisitedKey(t))
        /\ LET lines == IterationLines(VisitedKey(t), t, thr[t].iter)
           IN  /\ Len(lines) = 5
               /\ lines[1].label = "Path"
               /\ lines[1].val = 1
               /\ lines[1].extra = 2
               /\ lines[5].val = 7

(* C9: in the visit of a ground-to-ground pair the traceroute is the first
   external call: no ping is issued before it. *)
C9_TraceFirst ==
    \A t \in Threads :
        VisitingGsGs(t) => (thr[t].calls = <<>> \/ thr[t].calls[1] = "trace")

(* C10, as stated: the visit of a pair that is not ground-to-ground issues
   exactly one ping and no traceroute, and writes exactly one line, which
   carries the link type of the pair (ISL, or ISL + GSL for a mixed pair) and
   the RTT or the failure marker. *)
C10_OneProbeOneLine ==
    \A t \in Threads :
        (Visited(t) /\ ~IsGsGs(VisitedKey(t)))
        => LET key == VisitedKey(t)
               lines == IterationLines(key, t, thr[t].iter)
           IN  /\ thr[t].calls = <<"probe">>
               /\ Kinds(lines) = <<"rtt">>
               /\ lines[1].label = (IF key[3] = "sat" /\ key[4] = "sat"
                                    THEN "ISL" ELSE "ISL + GSL")

(* C10, amended: the visit issues at most one ping, none when the address of
   the second node does not resolve, in which case the line carries the failure
   marker, and no traceroute; it writes exactly one line, for the two nodes of
   the pair, with the link type of the pair and the RTT or the failure marker. *)
C10_AtMostOneProbeOneLine ==
    \A t \in Threads :
        (Visited(t) /\ ~IsGsGs(VisitedKey(t)))
        => LET key == VisitedKey(t)
               lines == IterationLines(key, t, thr[t].iter)
           IN  /\ thr[t].calls \in {<<>>, <<"probe">>}
               /\ Kinds(lines) = <<"rtt">>
               /\ lines = thr[t].wrote
               /\ thr[t].calls = <<>> => lines[1].val = None
               /\ lines[1].val \in ProbeRtts.e2e
               /\ lines[1].n1 = key[1]
               /\ lines[1].n2 = key[2]
               /\ lines[1].label = (IF key[3] = "sat" /\ key[4] = "sat"
                                    THEN "ISL" ELSE "ISL + GSL")

C10_Witness ==
    \E t \in Threads :
        /\ Visited(t)
        /\ VisitedKey(t) = Pgs
        /\ thr[t].calls = <<"probe">>
        /\ thr[t].wrote[1].label = "ISL + GSL"
        /\ thr[t].wrote[1].val = 7

(* C11: in every log the lines of one iteration are written together and
   before the lines of any later iteration, restarts included: no line of
   another iteration lies between two lines of the same iteration. *)
C11_IterationsNotInterleaved ==
    \A k \in Pairs : \A j \in 1..Len(files[k]) :
        LET b == files[k][j]
        IN  b.it >= 1
            => \A i \in 1..(j - 1) :
                  (files[k][i].it >= 1 /\ ~SameIteration(files[k][i], b))
                  => ~\E h \in 1..(i - 1) : SameIteration(files[k][h], b)

(* C12: a log file is written by the background thread of its session only:
   the controlling thread writes to a log file only while no background
   thread is alive, and a background thread writes only while it is the one
   background thread alive. *)
C12_OnlyOwnerWrites ==
    [][\A k \in Pairs :
          files'[k] # files[k]
          => \/ ctl' # ctl /\ AliveThreads = {}
             \/ ctl' = ctl /\ Cardinality(AliveThreads) = 1]_vars

(* C13: no failed probe, failed resolution or inconsistent trace ends the
   loop: a thread ends only at the test of the while loop with the running
   flag cleared; whatever a measurement gave, its result is logged and the
   thread goes on to the next measurement or the next pair; with the flag set
   it goes from pair to pair, sleeps and begins the next iteration. *)
C13_FailuresDoNotEndLoop ==
    [][\A t \in Threads :
          /\ (Alive(t) /\ ~Alive(t)') => (~running /\ thr[t].pc = "while")
          /\ (thr[t].pc \in {"call", "wait"} /\ thr'[t] # thr[t])
             => \/ thr'[t].pc \in {"call", "wait"} /\ thr'[t].idx = thr[t].idx
                \/ thr'[t].pc = "for" /\ thr'[t].idx = thr[t].idx + 1
                                      /\ thr'[t].wrote # <<>>
          /\ (running /\ thr[t].pc = "for" /\ thr[t].idx <= Len(thr[t].pairs)
                /\ thr'[t] # thr[t])
             => thr'[t].pc \in {"call", "for"}
          /\ (running /\ thr[t].pc = "sleep" /\ thr'[t] # thr[t])
             => thr'[t].pc = "while"
          /\ (running /\ thr[t].pc = "while" /\ thr'[t] # thr[t])
             => thr'[t].pc = "for" /\ thr'[t].iter = thr[t].iter + 1]_vars

C13_Witness ==
    \E t \in Threads :
        /\ running
        /\ thr[t].pairs = <<Pss, Psg>>
        /\ thr[t].pc = "wait"
        /\ thr[t].idx = 2
        /\ files[Pss][Len(files[Pss])].kind = "rtt"
        /\ files[Pss][Len(files[Pss])].val = None
        /\ files[Pss][Len(files[Pss])].by = t

(* C19: the running flag is tested at the top of each iteration and before
   each pair: with the flag cleared a thread begins no iteration and no pair,
   while the measurements of a pair already begun go on to the last line of
   the pair. *)
C19_StopsAtPairBoundary ==
    [][\A t \in Threads :
          ~running
          => /\ thr[t].pc = "while" => thr'[t].pc \in {"while", "done"}
             /\ thr[t].pc = "for" => thr'[t].pc \in {"for", "sleep"}
             /\ (thr[t].pc \in {"call", "wait"} /\ thr'[t] # thr[t])
                => \/ thr'[t].pc \in {"call", "wait"}
                   \/ /\ thr'[t].pc = "for"
                      /\ thr'[t].wrote[Len(thr'[t].wrote)].kind
                            = (IF IsGsGs(Key(t)) THEN "aggregate" ELSE "rtt")]_vars

C19_Witness ==
    \E t \in Threads :
        /\ ~running
        /\ ctl.pc = "idle"
        /\ console = "Real-time monitor stopped"
        /\ Visited(t)
        /\ IsGsGs(VisitedKey(t))
        /\ Kinds(thr[t].wrote)
              = <<"timestamp", "path", "uplink", "downlink", "isl", "aggregate">>

(* C20, as stated: once the running flag is cleared a thread finishes at most
   the call that is in flight and issues no further ping or traceroute: a
   visit that has issued a call issues no other one with the flag cleared. *)
C20_NoCallAfterStop ==
    [][\A t \in Threads :
          (~running /\ thr[t].pc = "call" /\ thr[t].calls # <<>>)
          => thr'[t].pc # "wait"]_vars

(* C20, amended: once the running flag is cleared a thread issues only the
   calls that are left of the pair it is measuring, at most five for the pair
   (a ping, the traceroute, three pings), then leaves the for loop, sleeps
   one interval and ends at the test of the while loop. *)
C20_OnePairAfterStop ==
    [][\A t \in Threads :
          ~running
          => /\ (thr[t].pc = "call" /\ thr'[t].pc = "wait")
                => /\ Len(thr'[t].calls) <= 5
                   /\ thr'[t].idx = thr[t].idx
                   /\ ~IsGsGs(Key(t)) => thr'[t].calls = <<"probe">>
             /\ (thr[t].pc = "for" /\ thr'[t] # thr[t]) => thr'[t].pc = "sleep"
             /\ (thr[t].pc = "sleep" /\ thr'[t] # thr[t]) => thr'[t].pc = "while"
             /\ (thr[t].pc = "while" /\ thr'[t] # thr[t]) => thr'[t].pc = "done"
             /\ thr[t].pc = "done" => thr'[t] = thr[t]]_vars

C20_Witness ==
    \E t \in Threads :
        /\ ~running
        /\ thr[t].pc = "done"
        /\ \E i, j \in 1..Len(files[Pgg]) :
              /\ i < j
              /\ files[Pgg][i].kind = "monitor_stop"
              /\ files[Pgg][j].kind = "aggregate"
              /\ files[Pgg][j].val = 7

(* C14: measure_rtt never raises; it returns None, without executing a
   ping, when get_IP raises or gives no address; with an address it executes
   the ping and returns None when the execution raises or no line of the
   output has a time, else the time of the first line that has one. *)
C14_MeasureRttResult ==
    app.f = "measure_rtt"
    => LET ip_list == app.arg[1]
           result == app.arg[2]
           output == result.value
           replies == {i \in 1..Len(output) : output[i] # None}
       IN  /\ ~app.ret.raised
           /\ (ip_list.raised \/ ip_list.value = <<>>)
              => (app.ret.rtt = None /\ ~app.ret.probed)
           /\ (~ip_list.raised /\ ip_list.value # <<>>)
              => /\ app.ret.probed
                 /\ (result.raised \/ replies = {}) => app.ret.rtt = None
                 /\ (~result.raised /\ replies # {})
                    => \E i \in replies :
                          /\ \A j \in replies : i <= j
                          /\ app.ret.rtt = output[i]

C14_Witness ==
    /\ app.f = "measure_rtt"
    /\ ~app.arg[1].raised
    /\ app.arg[2].value = <<7, 8, 9>>
    /\ app.ret = [rtt |-> 7, probed |-> TRUE, raised |-> FALSE]

(* C15: get_gs_access_sat_from_route returns (None, None) when the traceroute
   gave fewer than two hops, a failed or empty traceroute included. *)
C15_ShortRouteUnresolved ==
    (app.f = "get_gs_access_sat_from_route" /\ Len(app.arg) < 2)
    => app.ret = <<None, None>>

C15_Witness ==
    /\ app.f = "get_gs_access_sat_from_route"
    /\ app.arg = <<HopSat1>>
    /\ app.ret = <<None, None>>

(* C16: decoding an address the topology gave to a satellite or a ground
   station gives the index of that node. *)
C16_DecodeRecoversNode ==
    app.f = "sn_establish" => app.ret = app.arg.node

(* C17: an address of the form 9.X.Y.50 or 10.X.Y.Z decodes to None or to an
   index in 1..ConstellationSize, an address of the form 9.X.Y.60 to an index
   in ConstellationSize+1..ConstellationSize+GsCount, any other address to
   None. *)
C17_DecodedIndexInRange ==
    app.f = "ip_to_node_index"
    => LET ip == app.arg
       IN  IF (ip[1] = 9 /\ ip[4] = 50) \/ ip[1] = 10
           THEN app.ret = None \/ app.ret \in 1..ConstellationSize
           ELSE IF ip[1] = 9 /\ ip[4] = 60
           THEN app.ret \in (ConstellationSize + 1)..(ConstellationSize + GsCount)
           ELSE app.ret = None

(* C18: the emulation time is 0 before the first start and, after a start,
   the whole seconds elapsed since the start plus 2; every measurement line
   carries a time of at least 2, and the times of the measurement lines of a
   log never decrease from one line to the next. *)
C18_EmulationTimeNonDecreasing ==
    /\ (start_wall_time = None) => (get_emulation_time = 0)
    /\ (start_wall_time # None)
       => \E s \in 0..(MaxTime \div TicksPerSecond) :
             /\ s * TicksPerSecond <= now - start_wall_time
             /\ now - start_wall_time < (s + 1) * TicksPerSecond
             /\ get_emulation_time = s + 2
    /\ \A k \in log_files_dict :
          LET measured == SelectSeq(files[k], LAMBDA l : l.kind = "rtt")
          IN  \A i \in 1..Len(measured) :
                 /\ measured[i].extra >= 2
                 /\ i > 1 => measured[i - 1].extra <= measured[i].extra

(* C21: a stop that has cleared the running flag returns: the join ends and
   the stop entries are written, also when the background thread stays blocked
   for ever in a ping, a traceroute or the sleep. *)
C21_StopReturns ==
    (ctl.pc = "stop_join") ~> (ctl.pc = "idle" /\ ~running)

C21_Witness ==
    /\ ctl.pc = "idle"
    /\ ~running
    /\ console = "Real-time monitor stopped"
    /\ monitor_thread # 0
    /\ thr[monitor_thread].pc = "wait"

(* C25: once stop has cleared the running flag, and with no later start, a
   background thread whose external calls and sleeps all return ends its
   loop. *)
C25_TaskExitsAfterStop ==
    \A t \in Threads : (~running /\ Alive(t)) ~> (thr[t].pc = "done")

C25_Witness ==
    /\ ~running
    /\ thr[1].pc = "done"
    /\ \E k \in log_files_dict :
          /\ Len(files[k]) >= 2
          /\ files[k][Len(files[k])].by = 1
          /\ files[k][Len(files[k]) - 1].kind = "monitor_stop"

(* C22: for every radial velocity v and positive carrier the shift
   -(v / c) * carrier is strictly positive when v < 0, strictly negative when
   v > 0 and zero when v = 0. *)
C22_StrictSignLaw ==
    app.f = "calculate_doppler_shift"
    => LET v == app.arg[1]
       IN  /\ v < 0 => app.ret > 0
           /\ v > 0 => app.ret < 0
           /\ v = 0 => app.ret = 0

(* C22 as amended: the shift is never of the wrong sign, it is zero when
   v = 0, and it is strictly positive or negative when the magnitude of v is
   at least SPEED_OF_LIGHT times the least positive double, so that v / c does
   not round to zero. *)
C22_SignLaw ==
    app.f = "calculate_doppler_shift"
    => LET v == app.arg[1]
       IN  /\ v < 0 => app.ret >= 0
           /\ v > 0 => app.ret <= 0
           /\ v = 0 => app.ret = 0
           /\ v <= -SPEED_OF_LIGHT => app.ret > 0
           /\ v >= SPEED_OF_LIGHT => app.ret < 0

C22_Witness ==
    /\ app.f = "calculate_doppler_shift"
    /\ app.arg = <<-SPEED_OF_LIGHT, DEFAULT_CARRIER_FREQ_GHZ>>
    /\ app.ret = DEFAULT_CARRIER_FREQ_GHZ

(* C23: when the satellite and the ground station are less than the floor
   apart, the radial velocity and the Doppler shift are zero whatever the
   velocity of the satellite, and nothing is divided by the distance. *)
C23_DegenerateDistance ==
    app.f = "calculate_doppler_for_gsl"
    => LET rel_pos == [i \in 1..3 |-> app.arg[1][i] - app.arg[3][i]]
       IN  Dot(rel_pos, rel_pos) < DistanceFloor * DistanceFloor
           => /\ app.ret.radial_vel = 0
              /\ app.ret.doppler_shift = 0
              /\ ~app.ret.divided

C23_Witness ==
    /\ app.f = "calculate_doppler_for_gsl"
    /\ app.arg[1] = <<4, 0, 0>>
    /\ app.arg[3] = <<3, 0, 0>>
    /\ app.arg[2][1] > 1
    /\ app.ret = [doppler_shift |-> 0, radial_vel |-> 0, divided |-> FALSE]

(* C24: the formatted shift is in MHz exactly when its magnitude is at least
   1e6 Hz, in kHz exactly when it is at least 1e3 Hz and less than 1e6 Hz, in
   Hz otherwise; the number shown is the shift divided by the scale of the
   unit, to the nearest thousandth (1234567 Hz gives 1.235 MHz, 4200 Hz gives
   4.200 kHz, 42 Hz gives 42.000 Hz); a shift and its negation get the same
   unit. *)
C24_UnitByMagnitude ==
    app.f = "format_doppler_shift"
    => LET hz == app.arg
           scale == IF app.ret.unit = "MHz" THEN 1000000
                    ELSE IF app.ret.unit = "kHz" THEN 1000 ELSE 1
       IN  /\ app.ret.unit = "MHz" <=> (hz >= 1000000000 \/ hz <= -1000000000)
           /\ app.ret.unit = "kHz" <=> /\ (hz >= 1000000 \/ hz <= -1000000)
                                       /\ hz < 1000000000
                                       /\ hz > -1000000000
           /\ app.ret.unit \in {"MHz", "kHz", "Hz"}
           /\ 2 * (app.ret.thousandths * scale - hz) <= scale
           /\ 2 * (hz - app.ret.thousandths * scale) <= scale
           /\ hz = 1234567000 => app.ret = [unit |-> "MHz", thousandths |-> 1235]
           /\ hz = 4200000 => app.ret = [unit |-> "kHz", thousandths |-> 4200]
           /\ hz = 42000 => app.ret = [unit |-> "Hz", thousandths |-> 42000]
           /\ format_doppler_shift(-hz).unit = app.ret.unit

C24_Witness ==
    /\ app.f = "format_doppler_shift"
    /\ app.arg = -1234567000
    /\ app.ret = [unit |-> "MHz", thousandths |-> -1235]

(* C26: in the visit of a ground-to-ground pair the segments are measured one
   after the other, uplink, then downlink, then inter-satellite link: when a
   thread is about to issue, or waits for, the probe of a segment, the path
   line and the lines of all earlier segments are in the log and no line of a
   later segment is; a thread has no second call in flight. *)
C26_SegmentsInSequence ==
    \A t \in Threads :
       LET kinds == Kinds(thr[t].wrote)
           segments == SelectSeq(kinds, LAMBDA k : k \in SegmentKinds)
       IN  /\ VisitingGsGs(t)
              => /\ thr[t].phase \in {"e2e", "trace", "up"} => segments = <<>>
                 /\ thr[t].phase = "down"
                    => segments = (IF thr[t].src # None THEN <<"uplink">> ELSE <<>>)
                 /\ thr[t].phase = "isl" => segments = <<"uplink", "downlink">>
                 /\ thr[t].phase \in {"up", "down", "isl"}
                    => /\ Len(kinds) >= 2
                       /\ kinds[1] = "timestamp"
                       /\ kinds[2] = "path"
                 /\ thr[t].pc = "wait"
                    => /\ thr[t].calls # <<>>
                       /\ Len(thr[t].calls) <= Len(thr[t].wrote) + 1
           /\ (Visited(t) /\ IsGsGs(VisitedKey(t)))
              => segments \in { <<>>, <<"uplink">>, <<"downlink">>,
                                <<"uplink", "downlink", "isl">> }

C26_Witness ==
    \E t \in Threads :
       /\ VisitingGsGs(t)
       /\ thr[t].pc = "wait"
       /\ thr[t].phase = "isl"
       /\ Kinds(thr[t].wrote) = <<"timestamp", "path", "uplink", "downlink">>
       /\ thr[t].calls = <<"probe", "trace", "probe", "probe", "probe">>

(* C27: of a route of two hops or more, the source access satellite is the
   first of the first three hops that decodes to a satellite, the destination
   access satellite the last of the last three hops that does; a satellite
   outside these hops is not returned, and each is None when its three hops
   hold no satellite, whatever the other is. *)
C27_AccessSatWindows ==
    (app.f = "get_gs_access_sat_from_route" /\ Len(app.arg) >= 2)
    => LET path_ips == app.arg
           n == Len(path_ips)
           Sats(from, to) == {i \in from..to : /\ 1 <= i
                                               /\ i <= n
                                               /\ ip_to_node_index(path_ips[i]) \in 1..ConstellationSize}
           first == Sats(1, 3)
           last == Sats(n - 2, n)
       IN  /\ first = {} => app.ret[1] = None
           /\ first # {}
              => \E i \in first : /\ \A j \in first : i <= j
                                  /\ app.ret[1] = ip_to_node_index(path_ips[i])
           /\ last = {} => app.ret[2] = None
           /\ last # {}
              => \E i \in last : /\ \A j \in last : j <= i
                                 /\ app.ret[2] = ip_to_node_index(path_ips[i])

C27_Witness ==
    /\ app.f = "get_gs_access_sat_from_route"
    /\ app.arg = <<HopGs, HopFar, HopGs, HopSat1, HopGs, HopFar, HopGs>>
    /\ app.ret = <<None, None>>

(* C30: an access satellite returned for a route is None or the index, in
   1..ConstellationSize, that one of the hops decodes to; index 0, the index
   of a ground station and None are never returned as a satellite. *)
C30_AccessSatInRange ==
    app.f = "get_gs_access_sat_from_route"
    => \A side \in 1..2 :
          \/ app.ret[side] = None
          \/ /\ app.ret[side] \in 1..ConstellationSize
             /\ \E i \in 1..Len(app.arg) : ip_to_node_index(app.arg[i]) = app.ret[side]

C30_Witness ==
    /\ app.f = "get_gs_access_sat_from_route"
    /\ app.arg = <<HopZero, HopGs, HopOther, HopSat1, HopSat2, HopZero, HopGs>>
    /\ app.ret = <<None, 2>>

(* C28, as stated: the running flag is tested before each sleep between two
   iterations, so a thread that finds the flag cleared at the top of an
   iteration or between two pairs ends without sleeping an interval. *)
C28_NoSleepAfterStop ==
    [][\A t \in Threads :
          (~running /\ thr[t].pc \in {"while", "for"}) => thr'[t].pc # "sleep"]_vars

(* C28, amended: the flag is tested at the top of each iteration and before
   each pair, not before the sleep.  A thread that finds it cleared at the top
   of an iteration ends at once; one that finds it cleared before a pair
   leaves the for loop without measuring the pair, sleeps one interval and
   comes back to the test at the top. *)
C28_OneSleepAfterStop ==
    [][\A t \in Threads :
          (~running /\ thr'[t] # thr[t])
          => /\ thr[t].pc = "while" => thr'[t].pc = "done"
             /\ thr[t].pc = "for"
                => /\ thr'[t].pc = "sleep"
                   /\ thr'[t].idx = thr[t].idx
                   /\ thr'[t].iter = thr[t].iter
             /\ thr[t].pc = "sleep"
                => /\ thr'[t].pc = "while"
                   /\ thr'[t].iter = thr[t].iter]_vars

C28_Witness ==
    \E t \in Threads :
        /\ ~running
        /\ thr[t].pc = "sleep"
        /\ thr[t].idx > 1
        /\ thr[t].idx <= Len(thr[t].pairs)

(* C29: the log files a session holds are those of the pairs passed to its
   start: once a session runs, log_files_dict is the set of its pairs; a
   thread writes its start entry, and stop writes its stop entry, only to the
   logs of the pairs the current session was started with. *)
C29_TargetsAreSessionPairs ==
    [][LET PairsOf(t) == {thr'[t].pairs[i] : i \in 1..Len(thr'[t].pairs)}
           Written(k, kind) == /\ Len(files'[k]) = Len(files[k]) + 1
                               /\ files'[k][Len(files'[k])].kind = kind
       IN  /\ (running' /\ ctl'.pc = "idle" /\ monitor_thread' # 0)
              => log_files_dict' = PairsOf(monitor_thread')
           /\ \A k \in Pairs :
                 /\ Written(k, "monitor_start")
                    => k \in PairsOf(files'[k][Len(files'[k])].by)
                 /\ Written(k, "monitor_stop")
                    => k \in PairsOf(monitor_thread')]_vars

(* C31: for every ISL address the orchestrater assigns, the .40 and .30 of
   the satellite that sets the link up, the .10 of its down neighbour and the
   .20 of its right neighbour, ip_to_node_index returns the satellite that
   holds the address. *)
C31_IslAddressDecodesToHolder ==
    app.f = "sn_establish_ISLs"
    => \A current_id \in DOMAIN app.ret : \A a \in app.ret[current_id] :
          ip_to_node_index_for(app.arg[1] * app.arg[2], a.ip) = a.node

(* C37: the satellite of global id c (from 0) uses the link indices 2c+1, for
   the ISL inside its orbit, and 2c+2, for the ISL to the next orbit, and no
   other; no two satellites use the same index, hence the same subnet; every
   address of a link of satellite c decodes to satellite c+1. *)
C37_LinkIndicesUnique ==
    app.f = "sn_establish_ISLs"
    => LET LinkIndex(a) == a.ip[2] * 256 + a.ip[3]
           Links(c) == {LinkIndex(a) : a \in app.ret[c]}
       IN  /\ DOMAIN app.ret = 0..(app.arg[1] * app.arg[2] - 1)
           /\ \A c \in DOMAIN app.ret :
                 /\ Links(c) = {2 * c + 1, 2 * c + 2}
                 /\ \A a \in app.ret[c] :
                       /\ a.ip[4] \in {40, 10} <=> LinkIndex(a) = 2 * c + 1
                       /\ a.ip[4] \in {30, 20} <=> LinkIndex(a) = 2 * c + 2
                       /\ a.ip[1] = 10
                       /\ ip_to_node_index_for(app.arg[1] * app.arg[2], a.ip) = c + 1
                 /\ \A d \in DOMAIN app.ret : c # d => Links(c) \cap Links(d) = {}

C37_Witness ==
    /\ app.f = "sn_establish_ISLs"
    /\ app.arg = <<3, 3>>
    /\ [node |-> 9, ip |-> <<10, 0, 18, 30>>] \in app.ret[8]
    /\ [node |-> 3, ip |-> <<10, 0, 18, 20>>] \in app.ret[8]

(* C38: in a constellation of orbit_num orbits of sat_num satellites the down
   neighbour of a satellite is the next satellite of its orbit, the first one
   after the last, and the right neighbour the satellite at the same position
   of the next orbit, the first orbit after the last; both lie in the
   constellation, and every satellite is the down neighbour of exactly one
   satellite and the right neighbour of exactly one. *)
C38_NeighbourRings ==
    app.f = "sn_get_neighbours"
    => LET orbit_num == app.arg[1]
           sat_num == app.arg[2]
           grid == (0..(sat_num - 1)) \X (0..(orbit_num - 1))
       IN  /\ \A pos \in grid :
                 /\ app.ret.down[pos] = <<(pos[1] + 1) % sat_num, pos[2]>>
                 /\ app.ret.right[pos] = <<pos[1], (pos[2] + 1) % orbit_num>>
                 /\ app.ret.down[pos] \in grid
                 /\ app.ret.right[pos] \in grid
                 /\ Cardinality({q \in grid : app.ret.down[q] = pos}) = 1
                 /\ Cardinality({q \in grid : app.ret.right[q] = pos}) = 1

C38_Witness ==
    /\ app.f = "sn_get_neighbours"
    /\ app.arg = <<3, 3>>
    /\ app.ret.down[<<2, 2>>] = <<0, 2>>
    /\ app.ret.right[<<2, 2>>] = <<2, 0>>
    /\ app.ret.right[<<0, 1>>] = <<0, 2>>

(* C32: when the route of a ground-to-ground pair gives exactly one access
   satellite, no probe is made for the other side nor for the ISL, and the
   lines of the iteration are the time stamp, a path line that reports the
   disconnection, the line of the segment of the known satellite with the
   outcome of its probe, and a failed aggregate; when the route gives no access
   satellite, no segment is probed and the lines are the time stamp, the path
   line with the disconnection and the failed aggregate. *)
C32_OneSidedPath ==
    [][\A t \in Threads :
          LET me == thr[t]
              after == thr'[t]
              one_sided == (me.src = None) # (me.dst = None)
              known == IF me.src # None THEN "up" ELSE "down"
              kind == IF me.src # None THEN "uplink" ELSE "downlink"
              finished == after.pc = "for" /\ after.phase = ""
          IN  /\ (me.phase \in {"up", "down", "isl"} /\ one_sided)
                 => /\ me.phase = known
                    /\ after.phase \in {known, ""}
                    /\ finished
                       => /\ Kinds(after.wrote)
                               = <<"timestamp", "path", kind, "aggregate">>
                          /\ after.wrote[2].label = "DISCONNECT"
                          /\ <<after.wrote[3].n1, after.wrote[3].n2>>
                               = (IF me.src # None THEN <<Key(t)[1], me.src>>
                                  ELSE <<me.dst, Key(t)[2]>>)
                          /\ after.wrote[4].val = None
              /\ (me.phase = "trace" /\ after.phase # "trace")
                 => IF after.src = None /\ after.dst = None
                    THEN /\ finished
                         /\ Kinds(after.wrote) = <<"timestamp", "path", "aggregate">>
                         /\ after.wrote[2].label = "DISCONNECT"
                         /\ after.wrote[3].val = None
                         /\ after.calls \in {<<>>, <<"probe">>, <<"trace">>,
                                             <<"probe", "trace">>}
                    ELSE after.phase \in {"up", "down"}]_vars

C32_Witness ==
    \E t \in Threads :
       /\ thr[t].pc = "for"
       /\ Kinds(thr[t].wrote) = <<"timestamp", "path", "downlink", "aggregate">>
       /\ thr[t].wrote[2].label = "DISCONNECT"
       /\ thr[t].wrote[3].val # None
       /\ thr[t].wrote[4].val = None
       /\ thr[t].calls = <<"probe", "trace", "probe">>

(* C33: a segment line shows a Doppler shift exactly when it is the line of
   an uplink or downlink segment, its RTT is present and the Doppler shift of
   the link could be computed; a Doppler shift that could not be computed
   leaves the line without one, and the RTT of every segment line and the
   aggregate are what they are without it; an ISL line never shows one. *)
C33_DopplerOnlyOnMeasuredGsl ==
    app.f = "log_rtt"
    => LET key == app.arg.key
           src_sat == app.arg.sats[1]
           dst_sat == app.arg.sats[2]
           rtts == app.arg.rtts
           Segment(kind) == {i \in DOMAIN app.ret : app.ret[i].kind = kind}
           Shown(rtt, doppler_shift_hz) == IF rtt # None THEN doppler_shift_hz ELSE None
       IN  /\ \A i \in Segment("uplink") :
                 /\ app.ret[i].val = rtts.up
                 /\ app.ret[i].extra
                      = Shown(rtts.up, calculate_doppler_shift_for_gsl(key[1], src_sat))
           /\ \A i \in Segment("downlink") :
                 /\ app.ret[i].val = rtts.down
                 /\ app.ret[i].extra
                      = Shown(rtts.down, calculate_doppler_shift_for_gsl(key[2], dst_sat))
           /\ \A i \in Segment("isl") :
                 app.ret[i].val = rtts.isl /\ app.ret[i].extra = None
           /\ \A i \in Segment("aggregate") :
                 app.ret[i].val
                   = (IF src_sat # None /\ dst_sat # None
                      THEN total_rtt(rtts.up, rtts.down, rtts.isl) ELSE None)
           /\ Cardinality(Segment("uplink")) = (IF src_sat # None THEN 1 ELSE 0)
           /\ Cardinality(Segment("downlink")) = (IF dst_sat # None THEN 1 ELSE 0)
           /\ Cardinality(Segment("aggregate")) = 1

(* a call where the uplink shows a Doppler shift, the downlink has an RTT but
   no Doppler shift could be computed for it, and the aggregate is a total *)
C33_Witness ==
    /\ app.f = "log_rtt"
    /\ \E i, j, k \in DOMAIN app.ret :
          /\ app.ret[i].kind = "uplink" /\ app.ret[i].extra = DopplerHz
          /\ app.ret[j].kind = "downlink" /\ app.ret[j].val # None
          /\ app.ret[j].extra = None
          /\ app.ret[k].kind = "aggregate" /\ app.ret[k].val # None

(* C34: a pair goes through the ground-to-ground procedure exactly when the
   logger classifies its two type tags as GS-GS, whatever the tags are. *)
C34_DispatchMatchesLabel ==
    app.f = "log_rtt_dispatch" => (app.ret.gs_gs <=> app.ret.label = "GS-GS")

(* C35: once a second session has been started on a monitor, the log of every
   pair of that session begins with the header written by that start and holds,
   after it, only lines of the new session: lines of its thread and the stop
   entry of its stop. *)
C35_RestartLeavesOnlyNewSession ==
    (monitor_thread = 2 /\ thr[2].pc # "none")
    => \A i \in 1..Len(thr[2].pairs) :
          LET log == files[thr[2].pairs[i]]
          IN  /\ Len(log) >= 1
              /\ log[1].kind = "header"
              /\ \A j \in 2..Len(log) :
                    /\ log[j].kind # "header"
                    /\ log[j].by = 2 \/ log[j].kind = "monitor_stop"

(* C36: in an iteration of the single-log monitor the measurements begun are
   an initial part of: for each pair in the configured order the RTT
   measurement, if selected, then the bandwidth measurement, if selected, and
   after all pairs one routing measurement per routing node; the line of a
   measurement is written before the next measurement begins; a pair or a
   routing node is begun only after the running flag has been read as set; and
   once the thread has read the flag as cleared it begins no measurement in
   that iteration. *)
C36_IterationOrder ==
    [][\A t \in Threads :
          LET me == thr[t]
              after == thr'[t]
              expected == SingleLogPairCalls(me.pairs, me.measure_types)
                          \o SingleLogRoutingCalls(me.routing_nodes)
              waiting == me.pc \in {"rtt_wait", "bw_wait", "route_wait"}
          IN  /\ Len(me.calls) <= Len(expected)
              /\ me.calls = SubSeq(expected, 1, Len(me.calls))
              /\ Len(me.wrote) = Len(me.calls) - (IF waiting THEN 1 ELSE 0)
              /\ \A i \in DOMAIN me.wrote :
                    /\ me.wrote[i].kind = me.calls[i][1]
                    /\ me.wrote[i].n1 = me.calls[i][2]
                    /\ me.wrote[i].n2 = me.calls[i][3]
              /\ (me.pc = "pair" /\ after.pc = "rtt") => running
              /\ (me.pc = "node" /\ after.pc = "route_wait") => running
              /\ (me.observed /\ after.iter = me.iter) => after.calls = me.calls]_vars

====
